---------------------------- MODULE Spec2Model ----------------------------
(***************************************************************************)
(* Ledger core of oxidized-wallet (wallet-core): the account hierarchy,    *)
(* atomic transaction recording and balance computation, modelled over the *)
(* three persisted tables accounts, transactions and transaction_entries.  *)
(*                                                                         *)
(* Amounts are minor units (i64 in the source).  Every amount of the model *)
(* is drawn from a small range, so no sum comes near the i64 limits: the   *)
(* arithmetic below is exact and i64 overflow is outside the model.        *)
(***************************************************************************)
EXTENDS Integers, Sequences, FiniteSets, TLC

VARIABLES
    accounts,             \* table accounts: row id = index
    transactions,         \* table transactions (committed rows): row id = index
    transaction_entries,  \* table transaction_entries (committed rows): row id = index
    ret,                  \* what the last completed service call returned
    tx,                   \* the create_transaction call in flight and its sqlx transaction
    log,                  \* history: the inputs of the committed create_transaction calls
    rd,                   \* the read call in flight, statement by statement
    v_entries,            \* argument of validate_transaction_balance under check
    v_result,             \* its result (NotCalled before the call)
    pool,                 \* connections of the SqlitePool that are checked out
    calls                 \* each caller's service call in flight, as the pool sees it

vars ==
    <<accounts, transactions, transaction_entries, ret, tx, log, rd, v_entries, v_result,
      pool, calls>>

(***************************************************************************)
(* Bounds of the model.                                                    *)
(***************************************************************************)
MaxEntries == 3      \* longest entry list given to validate_transaction_balance
MaxAmount == 2       \* largest amount_minor of an entry

(***************************************************************************)
(* models/transaction.rs, models/money.rs                                  *)
(***************************************************************************)
EntryType == {"Debit", "Credit"}

\* Currency::new: the code must be three bytes long.
CurrencyNewOk(code) == Len(code) = 3

\* Codes used for the amounts of entries: both pass Currency::new.
EntryCurrencies == {"EUR", "BTC"}

\* TransactionEntryInput (the optional description plays no part in any rule).
EntryInput(ids, amounts) ==
    [account_id : ids, amount_minor : amounts, currency : EntryCurrencies,
     entry_type : EntryType]

\* The same, with the currencies named.
EntryInputIn(ids, amounts, currencies) ==
    [account_id : ids, amount_minor : amounts, currency : currencies,
     entry_type : EntryType]

RECURSIVE SumAmounts(_, _)
\* entries.iter().filter(entry_type == t).map(amount_minor).sum()
SumAmounts(entries, t) ==
    IF entries = << >> THEN 0
    ELSE (IF Head(entries).entry_type = t THEN Head(entries).amount_minor ELSE 0)
         + SumAmounts(Tail(entries), t)

\* Result<T>: Ok(val) or Err(WalletError); val is << >> for Ok(()).
Ok(v) == [ok |-> TRUE, kind |-> "Ok", msg |-> "", val |-> v]

ValidationError(m) == [ok |-> FALSE, kind |-> "ValidationError", msg |-> m, val |-> << >>]

\* sqlx::Error converted by `?` (row not found, decode failure, store failure).
DatabaseError(m) == [ok |-> FALSE, kind |-> "DatabaseError", msg |-> m, val |-> << >>]

\* The message of the unbalanced error formats both totals: val carries them.
NotBalanced(d, c) ==
    [ok |-> FALSE, kind |-> "ValidationError",
     msg |-> "Transaction is not balanced", val |-> <<d, c>>]

\* validate_transaction_balance without its balance check.
validate_without_balance_check(entries) ==
    IF Len(entries) < 2
    THEN ValidationError("Transaction must have at least 2 entries")
    ELSE IF \E i \in 1..Len(entries) : entries[i].amount_minor <= 0
    THEN ValidationError("All transaction amounts must be positive")
    ELSE IF \E i \in 1..Len(entries) : entries[i].currency # entries[1].currency
    THEN ValidationError("Multi-currency transactions not supported yet")
    ELSE Ok(<< >>)

\* validate_transaction_balance whose positivity check lets a zero amount pass.
validate_zero_amount_passes(entries) ==
    IF Len(entries) < 2
    THEN ValidationError("Transaction must have at least 2 entries")
    ELSE IF \E i \in 1..Len(entries) : entries[i].amount_minor < 0
    THEN ValidationError("All transaction amounts must be positive")
    ELSE IF \E i \in 1..Len(entries) : entries[i].currency # entries[1].currency
    THEN ValidationError("Multi-currency transactions not supported yet")
    ELSE LET total_debits == SumAmounts(entries, "Debit")
             total_credits == SumAmounts(entries, "Credit")
         IN  IF total_debits # total_credits
             THEN NotBalanced(total_debits, total_credits)
             ELSE Ok(<< >>)

\* TransactionService::validate_transaction_balance
validate_transaction_balance(entries) ==
    IF Len(entries) < 2
    THEN ValidationError("Transaction must have at least 2 entries")
    ELSE IF \E i \in 1..Len(entries) : entries[i].amount_minor <= 0
    THEN ValidationError("All transaction amounts must be positive")
    ELSE IF \E i \in 1..Len(entries) : entries[i].currency # entries[1].currency
    THEN ValidationError("Multi-currency transactions not supported yet")
    ELSE LET total_debits == SumAmounts(entries, "Debit")
             total_credits == SumAmounts(entries, "Credit")
         IN  IF total_debits # total_credits
             THEN NotBalanced(total_debits, total_credits)
             ELSE Ok(<< >>)

(***************************************************************************)
(* models/account.rs, db/accounts.rs: the accounts table                   *)
(***************************************************************************)
AccountType == {"Asset", "Liability", "Equity", "Income", "Expense"}

\* #[sqlx(rename_all = "lowercase")]: the persisted name of an AccountType.
AccountTypeStr(t) ==
    CASE t = "Asset" -> "asset"
      [] t = "Liability" -> "liability"
      [] t = "Equity" -> "equity"
      [] t = "Income" -> "income"
      [] t = "Expense" -> "expense"

NULL == 0            \* SQL NULL / Option::None in an id column (row ids start at 1)

NoDescription == "NULL"

\* Currency::from_code, as far as it succeeds: to_uppercase, then EUR or BTC.
ToUppercase(code) ==
    CASE code = "eur" -> "EUR"
      [] code = "btc" -> "BTC"
      [] OTHER -> code

FromCodeOk(code) == ToUppercase(code) \in {"EUR", "BTC"}

\* Names are sequences of characters, so that trim() is computed.
RECURSIVE TrimStart(_)
TrimStart(s) == IF s # << >> /\ Head(s) = " " THEN TrimStart(Tail(s)) ELSE s

RECURSIVE TrimEnd(_)
TrimEnd(s) ==
    IF s # << >> /\ s[Len(s)] = " " THEN TrimEnd(SubSeq(s, 1, Len(s) - 1)) ELSE s

\* str::trim
Trim(s) == TrimEnd(TrimStart(s))

AccountRow(name, type, parent, currency) ==
    [name |-> name, account_type |-> AccountTypeStr(type), parent_id |-> parent,
     currency |-> currency, description |-> NoDescription, is_active |-> TRUE]

\* The five root accounts the migration seeds (Assets, Liabilities, Equity,
\* Income, Expenses), ids 1..5.
SeededAccounts ==
    << AccountRow(<<"Assets">>, "Asset", NULL, "EUR"),
       AccountRow(<<"Liabilities">>, "Liability", NULL, "EUR"),
       AccountRow(<<"Equity">>, "Equity", NULL, "EUR"),
       AccountRow(<<"Income">>, "Income", NULL, "EUR"),
       AccountRow(<<"Expenses">>, "Expense", NULL, "EUR") >>

AccountIds == 1..Len(accounts)

\* AccountRepository::get_by_id succeeds: fetch_one finds the row and
\* FromRow decodes it (Currency::from_code on the stored code).
GetByIdOk(id) == id \in AccountIds /\ FromCodeOk(accounts[id].currency)

\* AccountRepository::get_children: the rows the query selects, and whether
\* query_as decodes every one of them.
ChildRows(parent_id) ==
    {c \in AccountIds : accounts[c].parent_id = parent_id /\ accounts[c].is_active}

GetChildrenOk(parent_id) == \A c \in ChildRows(parent_id) : FromCodeOk(accounts[c].currency)

\* AccountRepository::create: INSERT, then get_by_id of the new row id.
RepositoryCreate(row) ==
    /\ accounts' = Append(accounts, row)
    /\ ret' = [op |-> "create_account", arg |-> << >>,
               res |-> IF FromCodeOk(row.currency)
                       THEN Ok(Len(accounts) + 1)
                       ELSE DatabaseError("decode")]

\* create_account that inserts before it checks the name.
CreateAccountInsertsFirst(name, account_type, parent_id, currency) ==
    /\ UNCHANGED <<transactions, transaction_entries, tx, log, rd, v_entries, v_result, pool, calls>>
    /\ IF parent_id = NULL \/ ~GetByIdOk(parent_id)
       THEN /\ ret' = [op |-> "create_account", arg |-> << >>,
                       res |-> ValidationError("Parent account is required")]
            /\ UNCHANGED accounts
       ELSE /\ accounts' = Append(accounts,
                                  AccountRow(Trim(name), account_type, parent_id, currency))
            /\ ret' = [op |-> "create_account", arg |-> << >>,
                       res |-> IF Trim(name) = << >>
                               THEN ValidationError("Account name cannot be empty")
                               ELSE Ok(Len(accounts) + 1)]

\* AccountService::create_account
CreateAccount(name, account_type, parent_id, currency) ==
    /\ UNCHANGED <<transactions, transaction_entries, tx, log, rd, v_entries, v_result, pool, calls>>
    /\ IF parent_id = NULL
       THEN /\ ret' = [op |-> "create_account", arg |-> << >>,
                       res |-> ValidationError("Parent account is required")]
            /\ UNCHANGED accounts
       ELSE IF ~GetByIdOk(parent_id)
       THEN /\ ret' = [op |-> "create_account", arg |-> << >>, res |-> DatabaseError("get_by_id")]
            /\ UNCHANGED accounts
       ELSE IF accounts[parent_id].account_type # AccountTypeStr(account_type)
       THEN /\ ret' = [op |-> "create_account", arg |-> << >>,
                       res |-> ValidationError("must be created under a parent of the same type")]
            /\ UNCHANGED accounts
       ELSE IF Trim(name) = << >>
       THEN /\ ret' = [op |-> "create_account", arg |-> << >>,
                       res |-> ValidationError("Account name cannot be empty")]
            /\ UNCHANGED accounts
       ELSE RepositoryCreate(AccountRow(Trim(name), account_type, parent_id, currency))

MaxDepth == 5

RECURSIVE HierarchyDepthFrom(_, _)
\* The loop of validate_hierarchy_depth from current_id with `depth` levels
\* counted so far.
HierarchyDepthFrom(current_id, depth) ==
    IF ~GetByIdOk(current_id) THEN DatabaseError("get_by_id")
    ELSE IF depth + 1 > MaxDepth
    THEN ValidationError("Account hierarchy too deep (max 5 levels)")
    ELSE IF accounts[current_id].parent_id # NULL
    THEN HierarchyDepthFrom(accounts[current_id].parent_id, depth + 1)
    ELSE Ok(<< >>)

\* AccountService::validate_hierarchy_depth
validate_hierarchy_depth(parent_id) == HierarchyDepthFrom(parent_id, 0)

\* An UPDATE that also sets is_active.
RepositoryUpdateReactivates(account) ==
    /\ accounts' = [accounts EXCEPT ![account.id] =
                       [@ EXCEPT !.name = account.name,
                                 !.description = account.description,
                                 !.is_active = TRUE]]
    /\ ret' = [op |-> "update_account", arg |-> << >>, res |-> Ok(account.id)]

\* An UPDATE that also writes account_type.
RepositoryUpdateWritesType(account) ==
    /\ accounts' = [accounts EXCEPT ![account.id] =
                       [@ EXCEPT !.name = account.name,
                                 !.description = account.description,
                                 !.account_type = AccountTypeStr(account.account_type)]]
    /\ ret' = [op |-> "update_account", arg |-> << >>, res |-> Ok(account.id)]

\* An UPDATE that also writes parent_id.
RepositoryUpdateWritesParent(account) ==
    /\ accounts' = [accounts EXCEPT ![account.id] =
                       [@ EXCEPT !.name = account.name,
                                 !.description = account.description,
                                 !.parent_id = account.parent_id]]
    /\ ret' = [op |-> "update_account", arg |-> << >>, res |-> Ok(account.id)]

\* AccountRepository::update: UPDATE name, description; then get_by_id.
RepositoryUpdate(account) ==
    /\ accounts' = [accounts EXCEPT ![account.id] =
                       [@ EXCEPT !.name = account.name,
                                 !.description = account.description]]
    /\ ret' = [op |-> "update_account", arg |-> << >>, res |-> Ok(account.id)]

\* AccountService::update_account; `account` is the caller's Account value.
UpdateAccount(account) ==
    /\ UNCHANGED <<transactions, transaction_entries, tx, log, rd, v_entries, v_result, pool, calls>>
    /\ IF ~GetByIdOk(account.id)
       THEN /\ ret' = [op |-> "update_account", arg |-> << >>, res |-> DatabaseError("get_by_id")]
            /\ UNCHANGED accounts
       ELSE IF account.parent_id # NULL /\ ~GetByIdOk(account.parent_id)
       THEN /\ ret' = [op |-> "update_account", arg |-> << >>, res |-> DatabaseError("get_by_id")]
            /\ UNCHANGED accounts
       ELSE IF /\ account.parent_id # NULL
               /\ accounts[account.parent_id].account_type
                      # AccountTypeStr(account.account_type)
       THEN /\ ret' = [op |-> "update_account", arg |-> << >>,
                       res |-> ValidationError("must be under a parent of the same type")]
            /\ UNCHANGED accounts
       ELSE IF /\ account.parent_id # NULL
               /\ ~validate_hierarchy_depth(account.parent_id).ok
       THEN /\ ret' = [op |-> "update_account", arg |-> << >>,
                       res |-> validate_hierarchy_depth(account.parent_id)]
            /\ UNCHANGED accounts
       ELSE IF account.parent_id # NULL /\ account.id = account.parent_id
       THEN /\ ret' = [op |-> "update_account", arg |-> << >>,
                       res |-> ValidationError("Account cannot be its own parent")]
            /\ UNCHANGED accounts
       ELSE RepositoryUpdate(account)

\* AccountRepository::deactivate
RepositoryDeactivate(id) ==
    /\ accounts' = [accounts EXCEPT ![id].is_active = FALSE]
    /\ ret' = [op |-> "deactivate_account", arg |-> << >>, res |-> Ok(<< >>)]

\* AccountService::deactivate_account
DeactivateAccount(id) ==
    /\ UNCHANGED <<transactions, transaction_entries, tx, log, rd, v_entries, v_result, pool, calls>>
    /\ IF ~GetByIdOk(id) \/ ~GetChildrenOk(id)
       THEN /\ ret' = [op |-> "deactivate_account", arg |-> << >>, res |-> DatabaseError("query")]
            /\ UNCHANGED accounts
       ELSE IF ChildRows(id) # {}
       THEN /\ ret' = [op |-> "deactivate_account", arg |-> << >>,
                       res |-> ValidationError("Cannot deactivate account - it has child accounts")]
            /\ UNCHANGED accounts
       ELSE RepositoryDeactivate(id)

(***************************************************************************)
(* db/accounts.rs: get_account_tree                                        *)
(***************************************************************************)
\* The characters of the names in use, in byte order (SQLite compares TEXT
\* with memcmp under the default BINARY collation).
Alphabet ==
    <<" ", ">", "A", "B", "C", "E", "I", "L", "S", "a", "b", "c", "e", "i", "k",
      "l", "m", "n", "o", "p", "q", "r", "s", "t", "u", "x", "y">>

CharCode(c) == CHOOSE i \in 1..Len(Alphabet) : Alphabet[i] = c

RECURSIVE TextLess(_, _)
\* p < q for two TEXT values.
TextLess(p, q) ==
    IF q = << >> THEN FALSE
    ELSE IF p = << >> THEN TRUE
    ELSE IF Head(p) # Head(q) THEN CharCode(Head(p)) < CharCode(Head(q))
    ELSE TextLess(Tail(p), Tail(q))

\* ' > '
PathSeparator == <<" ", ">", " ">>

\* CASE account_type WHEN 'asset' THEN 1 ... END
TypeRank(account_type) ==
    CASE account_type = "asset" -> 1
      [] account_type = "liability" -> 2
      [] account_type = "equity" -> 3
      [] account_type = "income" -> 4
      [] account_type = "expense" -> 5

\* The base case of account_tree: the active roots.
TreeBase ==
    {[id |-> a, level |-> 0, path |-> accounts[a].name] :
        a \in {r \in AccountIds : accounts[r].parent_id = NULL /\ accounts[r].is_active}}

\* The recursive case: the active children of the rows found last.
TreeChildren(found) ==
    UNION {{[id |-> c, level |-> t.level + 1,
             path |-> t.path \o PathSeparator \o accounts[c].name] :
               c \in {a \in AccountIds : /\ accounts[a].parent_id = t.id
                                         /\ accounts[a].is_active}} :
             t \in found}

RECURSIVE TreeRows(_)
\* WITH RECURSIVE account_tree: the rows of the base case and of every round
\* of the recursive case.
TreeRows(found) ==
    IF found = {} THEN {} ELSE found \cup TreeRows(TreeChildren(found))

\* ORDER BY rank, path: m sorts strictly before n.
TreeBefore(m, n) ==
    \/ TypeRank(accounts[m.id].account_type) < TypeRank(accounts[n.id].account_type)
    \/ /\ TypeRank(accounts[m.id].account_type) = TypeRank(accounts[n.id].account_type)
       /\ TextLess(m.path, n.path)

RECURSIVE TreeOrders(_)
\* The orders ORDER BY can give to rows S: rows with equal keys come in any
\* order.
TreeOrders(S) ==
    IF S = {} THEN {<< >>}
    ELSE UNION {{<<m>> \o rest : rest \in TreeOrders(S \ {m})} :
                   m \in {x \in S : \A y \in S : ~TreeBefore(y, x)}}

\* AccountRepository::get_account_tree: the results it can give (query_as
\* decodes every row, Currency::from_code included).
get_account_tree ==
    IF \E n \in TreeRows(TreeBase) : ~FromCodeOk(accounts[n.id].currency)
    THEN {DatabaseError("decode")}
    ELSE {Ok(order) : order \in TreeOrders(TreeRows(TreeBase))}

\* AccountService::get_account_tree
GetAccountTree ==
    /\ \E res \in get_account_tree :
          ret' = [op |-> "get_account_tree", arg |-> << >>, res |-> res]
    /\ UNCHANGED <<accounts, transactions, transaction_entries, tx, log, rd,
                   v_entries, v_result, pool, calls>>

(***************************************************************************)
(* db/transactions.rs: the transactions and transaction_entries tables     *)
(***************************************************************************)
\* The persisted name of an EntryType (entry_type_str).
EntryTypeStr(t) == IF t = "Debit" THEN "debit" ELSE "credit"

\* The row INSERT INTO transactions writes (reference, tags, notes stay NULL).
HeaderRow(description, transaction_date) ==
    [description |-> description, transaction_date |-> transaction_date]

\* The row INSERT INTO transaction_entries writes for one entry input.
EntryRow(transaction_id, entry_input) ==
    [transaction_id |-> transaction_id,
     account_id |-> entry_input.account_id,
     amount_minor |-> entry_input.amount_minor,
     currency |-> entry_input.currency,
     entry_type |-> EntryTypeStr(entry_input.entry_type)]

EntryRows(transaction_id, entries) ==
    [i \in 1..Len(entries) |-> EntryRow(transaction_id, entries[i])]

\* TransactionRepository::create_transaction run to its commit: the header
\* and every entry become visible together; last_insert_rowid is the id.
RepositoryCreateTransaction(description, transaction_date, entries) ==
    /\ transactions' = Append(transactions, HeaderRow(description, transaction_date))
    /\ transaction_entries' =
           transaction_entries \o EntryRows(Len(transactions) + 1, entries)
    /\ ret' = [op |-> "create_transaction", arg |-> << >>,
               res |-> Ok(Len(transactions) + 1)]

\* TransactionService::create_transaction as one call: validation, then the
\* repository, which either commits or meets a store failure before the
\* commit took effect (the dropped sqlx transaction rolls back).
CreateTransaction(description, transaction_date, entries) ==
    /\ UNCHANGED <<accounts, tx, log, rd, v_entries, v_result, pool, calls>>
    /\ IF ~validate_transaction_balance(entries).ok
       THEN /\ ret' = [op |-> "create_transaction", arg |-> << >>,
                       res |-> validate_transaction_balance(entries)]
            /\ UNCHANGED <<transactions, transaction_entries>>
       ELSE \/ /\ ret' = [op |-> "create_transaction", arg |-> << >>,
                          res |-> DatabaseError("store")]
               /\ UNCHANGED <<transactions, transaction_entries>>
            \/ RepositoryCreateTransaction(description, transaction_date, entries)

(***************************************************************************)
(* db/accounts.rs: debit/credit sums; services/account_service.rs:         *)
(* balances                                                                *)
(***************************************************************************)
EntryIds == 1..Len(transaction_entries)

\* SUM(CASE WHEN entry_type = t THEN amount_minor ELSE 0 END) over the rows.
RECURSIVE SumRows(_, _)
SumRows(rows, t) ==
    IF rows = {} THEN 0
    ELSE LET r == CHOOSE x \in rows : TRUE
         IN  (IF transaction_entries[r].entry_type = t
              THEN transaction_entries[r].amount_minor ELSE 0)
             + SumRows(rows \ {r}, t)

\* GROUP BY currency: one result row (total_debits, total_credits, currency)
\* per currency code among the selected rows.
GroupByCurrency(rows) ==
    {<<SumRows({r \in rows : transaction_entries[r].currency = c}, "debit"),
       SumRows({r \in rows : transaction_entries[r].currency = c}, "credit"),
       c>> : c \in {transaction_entries[r].currency : r \in rows}}

\* fetch_optional keeps the first result row, or None when there is none.
\* The query has no ORDER BY, so any group may come first: the set of the
\* values fetch_optional can return.
None == <<"None">>

FetchOptional(resultRows) == IF resultRows = {} THEN {None} ELSE resultRows

\* The rows each WHERE clause of the sums queries selects.
RowsOfAccount(account_id) ==
    {r \in EntryIds : transaction_entries[r].account_id = account_id}

\* JOIN transactions t ON te.transaction_id = t.id ... t.transaction_date < ?2
RowsOfAccountBefore(account_id, before_date) ==
    {r \in EntryIds :
        /\ transaction_entries[r].account_id = account_id
        /\ transaction_entries[r].transaction_id \in 1..Len(transactions)
        /\ transactions[transaction_entries[r].transaction_id].transaction_date
               < before_date}

RowsOfAccounts(account_ids) ==
    {r \in EntryIds : transaction_entries[r].account_id \in account_ids}

\* AccountRepository::get_account_transaction_sums
get_account_transaction_sums(account_id) ==
    FetchOptional(GroupByCurrency(RowsOfAccount(account_id)))

\* AccountRepository::get_account_transaction_sums_before_date
get_account_transaction_sums_before_date(account_id, before_date) ==
    FetchOptional(GroupByCurrency(RowsOfAccountBefore(account_id, before_date)))

RECURSIVE DescendantsFrom(_, _)
\* The recursive CTE account_tree: `found` plus, level by level, the active
\* rows whose parent_id is in it (fuel bounds the levels by the table size).
DescendantsFrom(found, fuel) ==
    LET next == found \cup {c \in AccountIds :
                               accounts[c].parent_id \in found /\ accounts[c].is_active}
    IN  IF fuel = 0 \/ next = found THEN found ELSE DescendantsFrom(next, fuel - 1)

\* AccountRepository::get_descendant_account_ids
get_descendant_account_ids(parent_account_id) ==
    DescendantsFrom({parent_account_id} \cap AccountIds, Len(accounts))

\* AccountRepository::get_multiple_accounts_transaction_sums
get_multiple_accounts_transaction_sums(account_ids) ==
    IF account_ids = {} THEN {None}
    ELSE FetchOptional(GroupByCurrency(RowsOfAccounts(account_ids)))

\* Money as (amount_minor, currency code).
Money(amount_minor, code) == <<amount_minor, code>>

\* A balance rule that takes every account type as debit-normal.
NormalBalanceAllDebit(account_type, debit_sum, credit_sum) == debit_sum - credit_sum

\* The normal-balance rule of the three balance functions.
NormalBalance(account_type, debit_sum, credit_sum) ==
    IF account_type \in {AccountTypeStr("Asset"), AccountTypeStr("Expense")}
    THEN debit_sum - credit_sum
    ELSE credit_sum - debit_sum

\* The common tail of calculate_balance, calculate_balance_with_children and
\* calculate_account_balance, given the fetched sums.
BalanceFromSums(account_id, transaction_sums) ==
    IF transaction_sums = None THEN Ok(Money(0, "EUR"))
    ELSE IF ~CurrencyNewOk(transaction_sums[3]) THEN
        [ok |-> FALSE, kind |-> "CurrencyError", msg |-> "Invalid currency code",
         val |-> << >>]
    ELSE Ok(Money(NormalBalance(accounts[account_id].account_type,
                                transaction_sums[1], transaction_sums[2]),
                  transaction_sums[3]))

\* AccountService::calculate_balance: the results it can return.
calculate_balance(account_id) ==
    IF ~GetByIdOk(account_id) THEN {DatabaseError("get_by_id")}
    ELSE {BalanceFromSums(account_id, sums) :
             sums \in get_account_transaction_sums(account_id)}

\* AccountService::calculate_balance_with_children: the results it can return.
calculate_balance_with_children(account_id) ==
    IF ~GetByIdOk(account_id) THEN {DatabaseError("get_by_id")}
    ELSE {BalanceFromSums(account_id, sums) :
             sums \in get_multiple_accounts_transaction_sums(
                          get_descendant_account_ids(account_id))}

NoDate == 0          \* Option<NaiveDate>::None (dates are day numbers from 1)

\* AccountService::calculate_account_balance: the results it can return.
calculate_account_balance(account_id, as_of_date) ==
    IF ~GetByIdOk(account_id) THEN {DatabaseError("get_by_id")}
    ELSE {BalanceFromSums(account_id, sums) :
             sums \in IF as_of_date # NoDate
                      THEN get_account_transaction_sums_before_date(account_id, as_of_date)
                      ELSE get_account_transaction_sums(account_id)}

\* The three balance calls as service calls.
CalculateBalance(account_id) ==
    /\ \E res \in calculate_balance(account_id) :
           ret' = [op |-> "calculate_balance", arg |-> <<account_id>>, res |-> res]
    /\ UNCHANGED <<accounts, transactions, transaction_entries, tx, log, rd, v_entries, v_result, pool, calls>>

CalculateBalanceWithChildren(account_id) ==
    /\ \E res \in calculate_balance_with_children(account_id) :
           ret' = [op |-> "calculate_balance_with_children", arg |-> <<account_id>>,
                   res |-> res]
    /\ UNCHANGED <<accounts, transactions, transaction_entries, tx, log, rd, v_entries, v_result, pool, calls>>

CalculateAccountBalance(account_id, as_of_date) ==
    /\ \E res \in calculate_account_balance(account_id, as_of_date) :
           ret' = [op |-> "calculate_account_balance",
                   arg |-> <<account_id, as_of_date>>, res |-> res]
    /\ UNCHANGED <<accounts, transactions, transaction_entries, tx, log, rd, v_entries, v_result, pool, calls>>

(***************************************************************************)
(* db/transactions.rs, statement by statement.  Rows inserted through the  *)
(* sqlx transaction stay in tx.pending until its COMMIT; every read runs   *)
(* on another pool connection and sees the committed tables only.  SQLite  *)
(* admits one write transaction at a time, so one call is in flight.       *)
(***************************************************************************)
\* No call made yet.
NotCalled == [ok |-> FALSE, kind |-> "none", msg |-> "", val |-> << >>]

\* No create_transaction call in flight; res is what the last one returned.
TxIdle(res) ==
    [pc |-> "idle", res |-> res, description |-> "", transaction_date |-> NoDate,
     entries |-> << >>, header_id |-> NULL, pending |-> << >>]

\* No read call in flight.
RdIdle == [op |-> "none", pc |-> "idle", arg |-> << >>, rows |-> << >>, out |-> << >>]

InFlight == tx.pc # "idle"

\* create_transaction that begins the store transaction without validating.
TxBeginUnchecked(description, transaction_date, entries) ==
    /\ ~InFlight
    /\ tx' = [pc |-> "begun", res |-> NotCalled, description |-> description,
              transaction_date |-> transaction_date, entries |-> entries,
              header_id |-> NULL, pending |-> << >>]
    /\ UNCHANGED <<accounts, transactions, transaction_entries, ret, log, rd,
                   v_entries, v_result, pool, calls>>

\* TransactionService::create_transaction up to pool.begin(): validation
\* failures return before any store operation.
TxBegin(description, transaction_date, entries) ==
    /\ ~InFlight
    /\ IF ~validate_transaction_balance(entries).ok
       THEN tx' = TxIdle(validate_transaction_balance(entries))
       ELSE tx' = [pc |-> "begun", res |-> NotCalled, description |-> description,
                   transaction_date |-> transaction_date, entries |-> entries,
                   header_id |-> NULL, pending |-> << >>]
    /\ UNCHANGED <<accounts, transactions, transaction_entries, ret, log, rd,
                   v_entries, v_result, pool, calls>>

\* The header INSERT executed on the pool (autocommit) instead of on tx.
TxInsertHeaderOnPool ==
    /\ tx.pc = "begun"
    /\ transactions' = Append(transactions, HeaderRow(tx.description, tx.transaction_date))
    /\ tx' = [tx EXCEPT !.pc = "header", !.header_id = Len(transactions) + 1]
    /\ UNCHANGED <<accounts, transaction_entries, ret, log, rd, v_entries, v_result, pool, calls>>

\* INSERT INTO transactions ... .execute(&mut *tx); last_insert_rowid.
TxInsertHeader ==
    /\ tx.pc = "begun"
    /\ tx' = [tx EXCEPT !.pc = "header", !.header_id = Len(transactions) + 1]
    /\ UNCHANGED <<accounts, transactions, transaction_entries, ret, log, rd,
                   v_entries, v_result, pool, calls>>

\* The entry INSERT executed on the pool (autocommit) instead of on tx.
TxInsertEntryOnPool ==
    /\ tx.pc = "header"
    /\ Len(tx.pending) < Len(tx.entries)
    /\ transaction_entries' = Append(transaction_entries,
           EntryRow(tx.header_id, tx.entries[Len(tx.pending) + 1]))
    /\ tx' = [tx EXCEPT !.pending =
                  Append(@, EntryRow(tx.header_id, tx.entries[Len(tx.pending) + 1]))]
    /\ UNCHANGED <<accounts, transactions, ret, log, rd, v_entries, v_result, pool, calls>>

\* One turn of the loop: INSERT INTO transaction_entries ... .execute(&mut *tx).
TxInsertEntry ==
    /\ tx.pc = "header"
    /\ Len(tx.pending) < Len(tx.entries)
    /\ tx' = [tx EXCEPT !.pending =
                  Append(@, EntryRow(tx.header_id, tx.entries[Len(tx.pending) + 1]))]
    /\ UNCHANGED <<accounts, transactions, transaction_entries, ret, log, rd,
                   v_entries, v_result, pool, calls>>

\* tx.commit(): the header and the entries become visible together.
TxCommit ==
    /\ tx.pc = "header"
    /\ Len(tx.pending) = Len(tx.entries)
    /\ transactions' = Append(transactions, HeaderRow(tx.description, tx.transaction_date))
    /\ transaction_entries' = transaction_entries \o tx.pending
    /\ log' = Append(log, [description |-> tx.description,
                           transaction_date |-> tx.transaction_date,
                           entries |-> tx.entries])
    /\ tx' = TxIdle(Ok(tx.header_id))
    /\ UNCHANGED <<accounts, ret, rd, v_entries, v_result, pool, calls>>

\* The next statement of the call (header insert, entry insert or commit)
\* fails: `?` returns the error and the dropped sqlx transaction rolls back.
\* The message names the statement that failed.
TxFail ==
    /\ InFlight
    /\ tx' = TxIdle(DatabaseError(
                 IF tx.pc = "begun" THEN "header insert"
                 ELSE IF Len(tx.pending) < Len(tx.entries) THEN "entry insert"
                 ELSE "commit"))
    /\ UNCHANGED <<accounts, transactions, transaction_entries, ret, log, rd,
                   v_entries, v_result, pool, calls>>

\* The call's future is dropped between begin and commit: the sqlx
\* transaction is dropped with it and rolls back; nothing is returned.
TxCancel ==
    /\ InFlight
    /\ tx' = TxIdle([ok |-> FALSE, kind |-> "Cancelled", msg |-> "", val |-> << >>])
    /\ UNCHANGED <<accounts, transactions, transaction_entries, ret, log, rd,
                   v_entries, v_result, pool, calls>>

\* Option<u32>::None for limit and offset.
NoneU32 == -1

RECURSIVE SortDesc(_)
\* ORDER BY t.transaction_date DESC, t.id DESC over a set of transaction ids.
SortDesc(ids) ==
    IF ids = {} THEN << >>
    ELSE LET first == CHOOSE t \in ids : \A u \in ids :
                          \/ transactions[t].transaction_date
                                 > transactions[u].transaction_date
                          \/ /\ transactions[t].transaction_date
                                    = transactions[u].transaction_date
                             /\ t >= u
         IN  <<first>> \o SortDesc(ids \ {first})

\* The filter arguments of get_transactions.
Filters(ids, dates, counts) ==
    [account_id : ids \cup {NULL}, from_date : dates \cup {NoDate},
     to_date : dates \cup {NoDate}, limit : counts \cup {NoneU32},
     offset : counts \cup {NoneU32}]

\* The SELECT DISTINCT of get_transactions: the transactions joined with an
\* entry that passes the WHERE clause.
MatchingTransactions(f) ==
    {t \in 1..Len(transactions) :
        /\ \E r \in EntryIds :
              /\ transaction_entries[r].transaction_id = t
              /\ f.account_id # NULL => transaction_entries[r].account_id = f.account_id
        /\ f.from_date # NoDate => transactions[t].transaction_date >= f.from_date
        /\ f.to_date # NoDate => transactions[t].transaction_date <= f.to_date}

\* The statement is "... ORDER BY ... {limit_clause} {offset_clause}": an
\* OFFSET clause without a LIMIT clause is not SQL that SQLite accepts.
QueryIsValid(f) == f.offset # NoneU32 => f.limit # NoneU32

\* The ids of the rows the (valid) first query of get_transactions returns.
TransactionsQuery(f) ==
    LET sorted == SortDesc(MatchingTransactions(f))
        skip == IF f.offset = NoneU32 THEN 0 ELSE f.offset
        upto == IF f.limit = NoneU32 THEN Len(sorted) ELSE skip + f.limit
    IN  SubSeq(sorted, skip + 1, IF upto < Len(sorted) THEN upto ELSE Len(sorted))

\* The entry_type a stored string parses to.
ParseEntryType(str) == IF str = "debit" THEN "Debit" ELSE "Credit"

RECURSIVE RowsToEntries(_, _)
\* The TransactionEntry values built from the rows of ids from..Len, for
\* transaction t, in id order.
RowsToEntries(t, from) ==
    IF from > Len(transaction_entries) THEN << >>
    ELSE IF transaction_entries[from].transaction_id # t THEN RowsToEntries(t, from + 1)
    ELSE << [id |-> from,
             transaction_id |-> t,
             account_id |-> transaction_entries[from].account_id,
             amount |-> Money(transaction_entries[from].amount_minor,
                              ToUppercase(transaction_entries[from].currency)),
             entry_type |-> ParseEntryType(transaction_entries[from].entry_type)] >>
         \o RowsToEntries(t, from + 1)

\* TransactionRepository::get_entries_for_transaction
get_entries_for_transaction(transaction_id) ==
    IF \E r \in EntryIds : /\ transaction_entries[r].transaction_id = transaction_id
                           /\ ~FromCodeOk(transaction_entries[r].currency)
    THEN [ok |-> FALSE, kind |-> "CurrencyError", msg |-> "Invalid currency code",
          val |-> << >>]
    ELSE IF \E r \in EntryIds :
               /\ transaction_entries[r].transaction_id = transaction_id
               /\ transaction_entries[r].entry_type \notin {"debit", "credit"}
    THEN ValidationError("Invalid entry type")
    ELSE Ok(RowsToEntries(transaction_id, 1))

\* The Transaction value built from a header row and its entries.
TransactionValue(id, header, entries) ==
    [id |-> id, description |-> header.description,
     transaction_date |-> header.transaction_date, entries |-> entries]

\* TransactionRepository::get_transaction
get_transaction(id) ==
    IF id \notin 1..Len(transactions) THEN DatabaseError("RowNotFound")
    ELSE IF ~get_entries_for_transaction(id).ok THEN get_entries_for_transaction(id)
    ELSE Ok(TransactionValue(id, transactions[id], get_entries_for_transaction(id).val))

\* TransactionService::get_transaction as one step.
GetTransaction(id) ==
    /\ ret' = [op |-> "get_transaction", arg |-> <<id>>, res |-> get_transaction(id)]
    /\ UNCHANGED <<accounts, transactions, transaction_entries, tx, log, rd,
                   v_entries, v_result, pool, calls>>

RECURSIVE HydrateRows(_)
\* The loop of get_transactions over the ids of the rows of the first query:
\* the first get_entries_for_transaction that fails ends the call.
HydrateRows(ids) ==
    IF ids = << >> THEN Ok(<< >>)
    ELSE IF ~get_entries_for_transaction(Head(ids)).ok
    THEN get_entries_for_transaction(Head(ids))
    ELSE IF ~HydrateRows(Tail(ids)).ok THEN HydrateRows(Tail(ids))
    ELSE Ok(<<TransactionValue(Head(ids), transactions[Head(ids)],
                               get_entries_for_transaction(Head(ids)).val)>>
            \o HydrateRows(Tail(ids)).val)

\* TransactionRepository::get_transactions
get_transactions(f) ==
    IF ~QueryIsValid(f) THEN DatabaseError("syntax error")
    ELSE HydrateRows(TransactionsQuery(f))

\* TransactionService::get_transactions as one step.
GetTransactions(f) ==
    /\ ret' = [op |-> "get_transactions", arg |-> <<f>>, res |-> get_transactions(f)]
    /\ UNCHANGED <<accounts, transactions, transaction_entries, tx, log, rd,
                   v_entries, v_result, pool, calls>>

RdFree == rd.pc \in {"idle", "done"}

RdDone(op, arg, out) ==
    [op |-> op, pc |-> "done", arg |-> arg, rows |-> << >>, out |-> out]

\* get_transaction, first statement: SELECT ... FROM transactions WHERE id = ?
GetTransactionHeader(id) ==
    /\ RdFree
    /\ rd' = IF id \in 1..Len(transactions)
             THEN [op |-> "get_transaction", pc |-> "entries", arg |-> <<id>>,
                   rows |-> <<[id |-> id, header |-> transactions[id]]>>, out |-> << >>]
             ELSE RdDone("get_transaction", <<id>>, DatabaseError("RowNotFound"))
    /\ UNCHANGED <<accounts, transactions, transaction_entries, ret, tx, log,
                   v_entries, v_result, pool, calls>>

\* get_transaction, second statement: get_entries_for_transaction.
GetTransactionEntries ==
    /\ rd.op = "get_transaction" /\ rd.pc = "entries"
    /\ LET got == get_entries_for_transaction(rd.rows[1].id)
       IN  rd' = RdDone(rd.op, rd.arg,
                        IF got.ok
                        THEN Ok(TransactionValue(rd.rows[1].id, rd.rows[1].header, got.val))
                        ELSE got)
    /\ UNCHANGED <<accounts, transactions, transaction_entries, ret, tx, log,
                   v_entries, v_result, pool, calls>>

\* get_transactions, first statement: the filtered, ordered header rows.
GetTransactionsHeaders(f) ==
    /\ RdFree
    /\ rd' = IF ~QueryIsValid(f)
             THEN RdDone("get_transactions", <<f>>, DatabaseError("syntax error"))
             ELSE IF TransactionsQuery(f) = << >>
             THEN RdDone("get_transactions", <<f>>, Ok(<< >>))
             ELSE [op |-> "get_transactions", pc |-> "entries", arg |-> <<f>>,
                   rows |-> [i \in 1..Len(TransactionsQuery(f)) |->
                                [id |-> TransactionsQuery(f)[i],
                                 header |-> transactions[TransactionsQuery(f)[i]]]],
                   out |-> << >>]
    /\ UNCHANGED <<accounts, transactions, transaction_entries, ret, tx, log,
                   v_entries, v_result, pool, calls>>

\* get_transactions, one turn of the loop over the rows.
GetTransactionsEntries ==
    /\ rd.op = "get_transactions" /\ rd.pc = "entries"
    /\ LET got == get_entries_for_transaction(rd.rows[1].id)
           value == TransactionValue(rd.rows[1].id, rd.rows[1].header, got.val)
       IN  rd' = IF ~got.ok THEN RdDone(rd.op, rd.arg, got)
                 ELSE IF Len(rd.rows) = 1
                 THEN RdDone(rd.op, rd.arg, Ok(Append(rd.out, value)))
                 ELSE [rd EXCEPT !.rows = Tail(@), !.out = Append(@, value)]
    /\ UNCHANGED <<accounts, transactions, transaction_entries, ret, tx, log,
                   v_entries, v_result, pool, calls>>

BalanceOps ==
    {"calculate_balance", "calculate_balance_with_children", "calculate_account_balance"}

\* The first statement of a balance call: get_by_id (as_of_date is read by
\* calculate_account_balance only).
BalanceGetById(op, account_id, as_of_date) ==
    /\ RdFree
    /\ rd' = IF ~GetByIdOk(account_id)
             THEN RdDone(op, <<account_id, as_of_date>>,
                         [res |-> DatabaseError("get_by_id"), seen |-> {}])
             ELSE [op |-> op,
                   pc |-> IF op = "calculate_balance_with_children"
                          THEN "descendants" ELSE "sums",
                   arg |-> <<account_id, as_of_date>>, rows |-> {account_id},
                   out |-> << >>]
    /\ UNCHANGED <<accounts, transactions, transaction_entries, ret, tx, log,
                   v_entries, v_result, pool, calls>>

\* calculate_balance_with_children, second statement.
BalanceDescendants ==
    /\ rd.op \in BalanceOps /\ rd.pc = "descendants"
    /\ rd' = [rd EXCEPT !.pc = "sums", !.rows = get_descendant_account_ids(rd.arg[1])]
    /\ UNCHANGED <<accounts, transactions, transaction_entries, ret, tx, log,
                   v_entries, v_result, pool, calls>>

\* The rows the sums statement of the balance call in rd selects.
SumsRows ==
    IF rd.op = "calculate_balance_with_children" THEN RowsOfAccounts(rd.rows)
    ELSE IF rd.op = "calculate_account_balance" /\ rd.arg[2] # NoDate
    THEN RowsOfAccountBefore(rd.arg[1], rd.arg[2])
    ELSE RowsOfAccount(rd.arg[1])

\* The last statement of a balance call: the sums query; the call returns
\* the balance.  `seen` records the rows behind the returned sums.
BalanceSums ==
    /\ rd.op \in BalanceOps /\ rd.pc = "sums"
    /\ \E sums \in (IF rd.op = "calculate_balance_with_children"
                    THEN get_multiple_accounts_transaction_sums(rd.rows)
                    ELSE FetchOptional(GroupByCurrency(SumsRows))) :
          rd' = [op |-> rd.op, pc |-> "done", arg |-> rd.arg,
                 rows |-> rd.rows,
                 out |-> [res |-> BalanceFromSums(rd.arg[1], sums),
                          seen |-> IF sums = None THEN {}
                                   ELSE {r \in SumsRows :
                                            transaction_entries[r].currency = sums[3]}]]
    /\ UNCHANGED <<accounts, transactions, transaction_entries, ret, tx, log,
                   v_entries, v_result, pool, calls>>

(***************************************************************************)
(* services/report_service.rs.  A balance call of an aggregation loop can  *)
(* fail in the store (the `failing` sets name the roots whose call does);  *)
(* stderr holds the account ids of the eprintln! lines the call printed.   *)
(***************************************************************************)
MonthLen == 2        \* days in a month of the model calendar
DaysBefore == 2      \* days of the calendar before the first day of month 1

\* NaiveDate::from_ymd_opt(year, month, 1) of the one year modelled: None
\* unless the month is 1..12, else the day number of the first of the month.
ValidMonth(month) == month \in 1..12

FirstDay(month) == (month - 1) * MonthLen + DaysBefore + 1

\* end_date: the first day of the next month, .pred_opt()
EndDate(month) == FirstDay(month + 1) - 1

\* start_date.pred_opt().unwrap_or(start_date)
StartBound(month) == FirstDay(month) - 1

\* AccountService::get_accounts: get_all decodes every row.
GetAllOk == \A a \in AccountIds : FromCodeOk(accounts[a].currency)

\* .filter(|a| a.parent_id.is_none() && a.account_type == account_type)
RootsOfType(account_type) ==
    {a \in AccountIds : /\ accounts[a].parent_id = NULL
                        /\ accounts[a].account_type = AccountTypeStr(account_type)}

\* One turn of the loop of get_total_by_account_type: what the root adds to
\* the total, and whether its failure is printed.
TotalTurn(root, failing) ==
    IF root \in failing THEN {[add |-> 0, printed |-> TRUE]}
    ELSE {IF balance.ok THEN [add |-> balance.val[1], printed |-> FALSE]
          ELSE [add |-> 0, printed |-> TRUE] :
             balance \in calculate_balance_with_children(root)}

RECURSIVE TotalLoop(_, _)
\* The loop of get_total_by_account_type over the roots left.
TotalLoop(roots, failing) ==
    IF roots = {} THEN {[total |-> 0, stderr |-> {}]}
    ELSE LET root == CHOOSE r \in roots : TRUE
         IN  {[total |-> turn.add + rest.total,
               stderr |-> (IF turn.printed THEN {root} ELSE {}) \cup rest.stderr] :
                 turn \in TotalTurn(root, failing),
                 rest \in TotalLoop(roots \ {root}, failing)}

\* ReportService::get_total_by_account_type
get_total_by_account_type(account_type, failing) ==
    IF ~GetAllOk THEN {[res |-> DatabaseError("get_all"), stderr |-> {}]}
    ELSE {[res |-> Ok(Money(loop.total, "EUR")), stderr |-> loop.stderr] :
             loop \in TotalLoop(RootsOfType(account_type), failing)}

\* get_net_worth that adds the liabilities to the assets.
get_net_worth_adds(failingAssets, failingLiabilities) ==
    {IF ~total_assets.res.ok THEN total_assets
     ELSE IF ~total_liabilities.res.ok THEN total_liabilities
     ELSE [res |-> Ok(Money(total_assets.res.val[1] + total_liabilities.res.val[1],
                            total_assets.res.val[2])),
           stderr |-> total_assets.stderr \cup total_liabilities.stderr] :
        total_assets \in get_total_by_account_type("Asset", failingAssets),
        total_liabilities \in get_total_by_account_type("Liability", failingLiabilities)}

\* ReportService::get_net_worth
get_net_worth(failingAssets, failingLiabilities) ==
    {IF ~total_assets.res.ok THEN total_assets
     ELSE IF ~total_liabilities.res.ok THEN total_liabilities
     ELSE [res |-> Ok(Money(total_assets.res.val[1] - total_liabilities.res.val[1],
                            total_assets.res.val[2])),
           stderr |-> total_assets.stderr \cup total_liabilities.stderr] :
        total_assets \in get_total_by_account_type("Asset", failingAssets),
        total_liabilities \in get_total_by_account_type("Liability", failingLiabilities)}

\* One turn of the loop of get_monthly_total_by_account_type: the balance
\* before the month's end, less the balance before the day before its start
\* (0 when that second call fails).
MonthlyTurn(root, month, failingEnd, failingStart) ==
    IF root \in failingEnd THEN {[add |-> 0, printed |-> TRUE]}
    ELSE {IF ~balance.ok THEN [add |-> 0, printed |-> TRUE]
          ELSE [add |-> balance.val[1]
                          - (IF root \in failingStart \/ ~start_bal.ok
                             THEN 0 ELSE start_bal.val[1]),
                printed |-> FALSE] :
             balance \in calculate_account_balance(root, EndDate(month)),
             start_bal \in calculate_account_balance(root, StartBound(month))}

RECURSIVE MonthlyLoop(_, _, _, _)
\* The loop of get_monthly_total_by_account_type over the roots left.
MonthlyLoop(roots, month, failingEnd, failingStart) ==
    IF roots = {} THEN {[total |-> 0, stderr |-> {}]}
    ELSE LET root == CHOOSE r \in roots : TRUE
         IN  {[total |-> turn.add + rest.total,
               stderr |-> (IF turn.printed THEN {root} ELSE {}) \cup rest.stderr] :
                 turn \in MonthlyTurn(root, month, failingEnd, failingStart),
                 rest \in MonthlyLoop(roots \ {root}, month, failingEnd, failingStart)}

\* ReportService::get_monthly_total_by_account_type
get_monthly_total_by_account_type(account_type, month, failingEnd, failingStart) ==
    IF ~ValidMonth(month) THEN {[res |-> ValidationError("Invalid date"), stderr |-> {}]}
    ELSE IF ~GetAllOk THEN {[res |-> DatabaseError("get_all"), stderr |-> {}]}
    ELSE {[res |-> Ok(Money(loop.total, "EUR")), stderr |-> loop.stderr] :
             loop \in MonthlyLoop(RootsOfType(account_type), month,
                                  failingEnd, failingStart)}

\* ReportService::get_total_assets / get_total_liabilities
GetTotal(account_type, failing) ==
    /\ \E out \in get_total_by_account_type(account_type, failing) :
          ret' = [op |-> IF account_type = "Asset" THEN "get_total_assets"
                         ELSE "get_total_liabilities",
                  arg |-> <<account_type, failing>>,
                  res |-> out.res, stderr |-> out.stderr]
    /\ UNCHANGED <<accounts, transactions, transaction_entries, tx, log, rd,
                   v_entries, v_result, pool, calls>>

\* ReportService::get_net_worth
GetNetWorth(failingAssets, failingLiabilities) ==
    /\ \E out \in get_net_worth(failingAssets, failingLiabilities) :
          ret' = [op |-> "get_net_worth",
                  arg |-> <<failingAssets, failingLiabilities>>,
                  res |-> out.res, stderr |-> out.stderr]
    /\ UNCHANGED <<accounts, transactions, transaction_entries, tx, log, rd,
                   v_entries, v_result, pool, calls>>

\* ReportService::get_monthly_income / get_monthly_expenses
GetMonthly(account_type, month, failingEnd, failingStart) ==
    /\ \E out \in get_monthly_total_by_account_type(account_type, month,
                                                    failingEnd, failingStart) :
          ret' = [op |-> IF account_type = "Income" THEN "get_monthly_income"
                         ELSE "get_monthly_expenses",
                  arg |-> <<account_type, month, failingEnd, failingStart>>,
                  res |-> out.res, stderr |-> out.stderr]
    /\ UNCHANGED <<accounts, transactions, transaction_entries, tx, log, rd,
                   v_entries, v_result, pool, calls>>

(***************************************************************************)
(* get_monthly_total_by_account_type, balance call by balance call: each   *)
(* calculate_account_balance reads the ledger as it is when it runs, and   *)
(* nothing holds the ledger still between two calls.  rd.out.seen_at is    *)
(* the number of transactions stored when the month-end call ran.          *)
(***************************************************************************)
MonthlyOut(total) ==
    [res |-> NotCalled, total |-> total, balance |-> 0,
     began_at |-> Len(transactions), seen_at |-> 0, ended_at |-> 0, torn |-> FALSE]

\* The dates, get_accounts and the filter on the roots of the type.
MonthlyBegin(account_type, month) ==
    /\ RdFree
    /\ rd' = IF ~ValidMonth(month)
             THEN [op |-> "get_monthly_total", pc |-> "done",
                   arg |-> <<account_type, month>>, rows |-> {},
                   out |-> [MonthlyOut(0) EXCEPT !.res = ValidationError("Invalid date")]]
             ELSE IF ~GetAllOk
             THEN [op |-> "get_monthly_total", pc |-> "done",
                   arg |-> <<account_type, month>>, rows |-> {},
                   out |-> [MonthlyOut(0) EXCEPT !.res = DatabaseError("get_all")]]
             ELSE IF RootsOfType(account_type) = {}
             THEN [op |-> "get_monthly_total", pc |-> "done",
                   arg |-> <<account_type, month>>, rows |-> {},
                   out |-> [MonthlyOut(0) EXCEPT !.res = Ok(Money(0, "EUR"))]]
             ELSE [op |-> "get_monthly_total", pc |-> "end",
                   arg |-> <<account_type, month>>,
                   rows |-> RootsOfType(account_type), out |-> MonthlyOut(0)]
    /\ UNCHANGED <<accounts, transactions, transaction_entries, ret, tx, log,
                   v_entries, v_result, pool, calls>>

\* The root of the current turn of the loop.
MonthlyRoot == CHOOSE root \in rd.rows : TRUE

\* After a turn: the next root, or the return.
MonthlyNext(out) ==
    IF rd.rows = {MonthlyRoot}
    THEN [op |-> rd.op, pc |-> "done", arg |-> rd.arg, rows |-> {},
          out |-> [out EXCEPT !.res = Ok(Money(out.total, "EUR")),
                              !.ended_at = Len(transactions)]]
    ELSE [op |-> rd.op, pc |-> "end", arg |-> rd.arg,
          rows |-> rd.rows \ {MonthlyRoot}, out |-> out]

\* calculate_account_balance(account_id, Some(end_date)); an Err is printed
\* and the root skipped.
MonthlyEnd ==
    /\ rd.op = "get_monthly_total" /\ rd.pc = "end"
    /\ \E balance \in calculate_account_balance(MonthlyRoot, EndDate(rd.arg[2])) :
          rd' = IF balance.ok
                THEN [rd EXCEPT !.pc = "start", !.out.balance = balance.val[1],
                                !.out.seen_at = Len(transactions)]
                ELSE MonthlyNext(rd.out)
    /\ UNCHANGED <<accounts, transactions, transaction_entries, ret, tx, log,
                   v_entries, v_result, pool, calls>>

\* A turn that does not subtract the balance before the month.
MonthlyStartSubtractsNothing ==
    /\ rd.op = "get_monthly_total" /\ rd.pc = "start"
    /\ rd' = MonthlyNext([rd.out EXCEPT
                 !.total = @ + rd.out.balance,
                 !.torn = @ \/ Len(transactions) # rd.out.seen_at])
    /\ UNCHANGED <<accounts, transactions, transaction_entries, ret, tx, log,
                   v_entries, v_result, pool, calls>>

\* calculate_account_balance(account_id, Some(start_date.pred())), and
\* total += balance - start_balance.
MonthlyStart ==
    /\ rd.op = "get_monthly_total" /\ rd.pc = "start"
    /\ \E start_bal \in calculate_account_balance(MonthlyRoot, StartBound(rd.arg[2])) :
          rd' = MonthlyNext([rd.out EXCEPT
                    !.total = @ + rd.out.balance
                                - (IF start_bal.ok THEN start_bal.val[1] ELSE 0),
                    !.torn = @ \/ Len(transactions) # rd.out.seen_at])
    /\ UNCHANGED <<accounts, transactions, transaction_entries, ret, tx, log,
                   v_entries, v_result, pool, calls>>

(***************************************************************************)
(* db/connection.rs: the connection pool.  Each caller runs one service    *)
(* call at a time; a call is seen here by the connections it asks for and  *)
(* gives back (the rows its statements read and write are modelled in the  *)
(* sections above).  create_transaction takes one connection with          *)
(* pool.begin() and runs every statement on it; get_transactions runs each *)
(* of its queries with fetch_all(&pool), which takes a connection for the  *)
(* statement and gives it back when the rows are collected.                *)
(***************************************************************************)
max_connections == 5

MaxCallers == 6      \* concurrent callers
MaxWriters == 3      \* callers among them that call create_transaction
MaxRows == 1         \* rows the first query of get_transactions returns

Callers == 1..MaxCallers

NoCall == [op |-> "none", pc |-> "idle", left |-> 0, held |-> 0]

\* A caller starts create_transaction (balance already validated) or
\* get_transactions; its first statement needs a connection.
PoolCall(c, op) ==
    /\ calls[c].pc = "idle"
    /\ calls' = [calls EXCEPT ![c] = [op |-> op, pc |-> "acquire", left |-> 0, held |-> 0]]
    /\ UNCHANGED <<accounts, transactions, transaction_entries, ret, tx, log, rd,
                   v_entries, v_result, pool>>

\* pool.begin() / fetch_all(&pool): the caller waits until fewer than
\* max_connections connections are checked out, then takes one.
PoolAcquire(c) ==
    /\ calls[c].pc = "acquire"
    /\ pool < max_connections
    /\ pool' = pool + 1
    /\ calls' = [calls EXCEPT ![c].pc = "run", ![c].held = @ + 1]
    /\ UNCHANGED <<accounts, transactions, transaction_entries, ret, tx, log, rd,
                   v_entries, v_result>>

\* create_transaction: the INSERT statements, all on the connection of tx.
PoolTxInsert(c) ==
    /\ calls[c].op = "create_transaction" /\ calls[c].pc = "run" /\ calls[c].left = 0
    /\ calls' = [calls EXCEPT ![c].left = 1]
    /\ UNCHANGED <<accounts, transactions, transaction_entries, ret, tx, log, rd,
                   v_entries, v_result, pool>>

\* create_transaction: tx.commit(), or tx dropped on an error: the
\* connection goes back to the pool and the call returns.
PoolTxEnd(c) ==
    /\ calls[c].op = "create_transaction" /\ calls[c].pc = "run"
    /\ pool' = pool - calls[c].held
    /\ calls' = [calls EXCEPT ![c] = NoCall]
    /\ UNCHANGED <<accounts, transactions, transaction_entries, ret, tx, log, rd,
                   v_entries, v_result>>

\* A get_transactions that reads its first query as a stream and keeps the
\* connection while it fetches the entries of each row.
PoolFetchKeeps(c) ==
    /\ calls[c].op = "get_transactions" /\ calls[c].pc = "run"
    /\ UNCHANGED <<accounts, transactions, transaction_entries, ret, tx, log, rd,
                   v_entries, v_result>>
    /\ IF calls[c].held = 1
       THEN /\ calls' = [calls EXCEPT ![c].pc = "acquire", ![c].left = MaxRows]
            /\ pool' = pool
       ELSE /\ calls' = [calls EXCEPT ![c] = NoCall]
            /\ pool' = pool - calls[c].held

\* get_transactions: a fetch_all(&pool) has collected its rows; the
\* connection goes back to the pool.  After the first query `rows` rows are
\* left to hydrate, each by one get_entries_for_transaction; after the last
\* one (or on an error) the call returns.
PoolFetchAll(c) ==
    /\ calls[c].op = "get_transactions" /\ calls[c].pc = "run"
    /\ pool' = pool - 1
    /\ UNCHANGED <<accounts, transactions, transaction_entries, ret, tx, log, rd,
                   v_entries, v_result>>
    /\ \E rows \in 0..MaxRows :
          /\ calls[c].left > 0 => rows < calls[c].left
          /\ calls' = [calls EXCEPT ![c] =
                          IF rows = 0 THEN NoCall
                          ELSE [@ EXCEPT !.pc = "acquire", !.left = rows, !.held = 0]]

(***************************************************************************)
(* The callers: arguments are drawn from small sets.                       *)
(***************************************************************************)
MaxNew == 2          \* accounts created beyond the seeded roots (Spec)
MaxChain == 6        \* accounts created beyond the seeded roots (SpecDepth)
MaxInactive == 1     \* deactivated accounts (SpecDepth)
MaxTx == 1           \* committed transactions (Spec)
MaxLedgerTx == 2     \* committed transactions (SpecLedger)
MaxDate == 2         \* transaction dates are days 1..MaxDate
MaxPosting == 1      \* largest amount_minor posted to the ledger
LedgerEntries == 2   \* longest entry list given to create_transaction
MaxCommits == 2      \* committed transactions (SpecTx)
TxDates == 1         \* transaction dates are days 1..TxDates (SpecTx)
MaxLeaves == 1       \* accounts created beyond the seeded roots (SpecEquation)

NumSeeded == Len(SeededAccounts)

RECURSIVE SeqsUpTo(_, _)
\* All sequences over S of length at most n.
SeqsUpTo(S, n) ==
    IF n = 0 THEN {<< >>}
    ELSE LET shorter == SeqsUpTo(S, n - 1)
         IN  shorter \cup {Append(q, x) : q \in shorter, x \in S}

\* Root accounts that callers name in their arguments.
SpecRoots == {1, 4}
DepthRoots == {1}

\* Ids passed as arguments: some roots, every created account, and one id
\* that has no row.
ArgIds(roots) == roots \cup (NumSeeded + 1 .. Len(accounts) + 1)

NameInputs == {<< >>, <<" ">>, <<"B">>, <<" ", "B", " ">>}
UpdateNames == {<<"B">>}

\* Currency values a caller can build with Currency::new (three bytes).
AccountCurrencies == {c \in {"EUR", "USD"} : CurrencyNewOk(c)}

\* Account values given to update_account (id NULL: Account.id = None, which
\* update_account looks up as id 0).
AccountArg(roots, updRoots, types) ==
    [id : ArgIds(updRoots) \cup {NULL}, name : UpdateNames, description : {NoDescription},
     parent_id : ArgIds(roots) \cup {NULL}, account_type : types]

Inactive == {a \in AccountIds : ~accounts[a].is_active}

\* The account calls: roots named as parents or deactivated (`roots`), roots
\* updated (`updRoots`), the account types asked for, and the caps on created
\* and deactivated accounts.
AccountOps(roots, updRoots, types, maxNew, maxInactive, currencies) ==
    \/ \E name \in NameInputs, type \in types,
          parent_id \in ArgIds(roots) \cup {NULL}, currency \in currencies :
          /\ Len(accounts) < NumSeeded + maxNew
          /\ CreateAccount(name, type, parent_id, currency)
    \/ \E account \in AccountArg(roots, updRoots, types) : UpdateAccount(account)
    \/ \E id \in ArgIds(roots) :
          /\ Cardinality(Inactive) < maxInactive
          /\ DeactivateAccount(id)

NoRet == [op |-> "none", arg |-> << >>, res |-> Ok(<< >>)]

Init ==
    /\ accounts = SeededAccounts
    /\ transactions = << >>
    /\ transaction_entries = << >>
    /\ ret = NoRet
    /\ tx = TxIdle(NotCalled)
    /\ log = << >>
    /\ rd = RdIdle
    /\ v_entries = << >>
    /\ v_result = NotCalled
    /\ pool = 0
    /\ calls = [c \in Callers |-> NoCall]

Dates == 1..MaxDate

\* The transaction and balance calls, on accounts `ids`, with entries posted
\* to accounts `postIds`.
LedgerOps(ids, postIds, maxTx) ==
    \/ \E transaction_date \in Dates,
          entries \in SeqsUpTo(EntryInput(postIds, 0..MaxPosting), LedgerEntries) :
          /\ Len(transactions) < maxTx
          /\ CreateTransaction("d", transaction_date, entries)
    \/ \E account_id \in ids : CalculateBalance(account_id)
    \/ \E account_id \in ids : CalculateBalanceWithChildren(account_id)
    \/ \E account_id \in ids, as_of_date \in {NoDate} \cup 1..MaxDate + 1 :
          CalculateAccountBalance(account_id, as_of_date)

\* The created accounts.
CreatedIds == NumSeeded + 1 .. Len(accounts)

\* Every service call, each as one step; entries are posted to the created
\* accounts.
Next ==
    \/ AccountOps(SpecRoots, {}, AccountType, MaxNew, NumSeeded + MaxNew, {"EUR"})
    \/ LedgerOps(ArgIds(SpecRoots), CreatedIds, MaxTx)

Spec == Init /\ [][Next]_vars

\* The ledger over the seeded chart: entries are posted to the roots.
NextLedger == LedgerOps(ArgIds(SpecRoots), SpecRoots, MaxLedgerTx)

SpecLedger == Init /\ [][NextLedger]_vars

\* Account values that rename a created account.
NewNames == {<<"C">>}

RenameArg ==
    [id : ArgIds({}), name : NewNames, description : {NoDescription},
     parent_id : SpecRoots \cup {NULL}, account_type : {"Asset", "Income"}]

\* The account service alone.
NextAccounts ==
    \/ AccountOps(SpecRoots, SpecRoots, AccountType, MaxNew, NumSeeded + MaxNew,
                  AccountCurrencies)
    \/ \E account \in RenameArg : UpdateAccount(account)

SpecAccounts == Init /\ [][NextAccounts]_vars

\* The account hierarchy alone, deep enough for the depth limit.
NextDepth == AccountOps(DepthRoots, {}, {"Asset", "Income"}, MaxChain, MaxInactive, {"EUR"})

SpecDepth == Init /\ [][NextDepth]_vars

\* The account tree read between account calls.
NextTree ==
    \/ AccountOps(SpecRoots, {}, {"Asset", "Income"}, MaxNew, MaxInactive, {"EUR"})
    \/ GetAccountTree

SpecTree == Init /\ [][NextTree]_vars

\* The days of the model calendar: the days before month 1, month 1, and
\* the first day of month 2.
ReportDates == 1..FirstDay(2)

ReportMonths == {0, 1}

\* The reports, each as one call on a ledger that does not change meanwhile,
\* over the seeded chart; entries are posted to the roots.
NextReport ==
    \/ \E transaction_date \in ReportDates,
          entries \in SeqsUpTo(EntryInput({1, 2, 4, 5}, 0..MaxPosting), LedgerEntries) :
          /\ Len(transactions) < MaxTx
          /\ CreateTransaction("d", transaction_date, entries)
    \/ \E account_type \in {"Asset", "Liability"},
          failing \in SUBSET {1, 2} : GetTotal(account_type, failing)
    \/ \E failingAssets \in SUBSET {1}, failingLiabilities \in SUBSET {2} :
          GetNetWorth(failingAssets, failingLiabilities)
    \/ \E account_type \in {"Income", "Expense"}, month \in ReportMonths :
          \E failingEnd \in SUBSET RootsOfType(account_type),
             failingStart \in SUBSET RootsOfType(account_type) :
             GetMonthly(account_type, month, failingEnd, failingStart)

SpecReport == Init /\ [][NextReport]_vars

SalaryAmount == 100000

BankName == <<"B", "a", "n", "k">>
SalaryName == <<"S", "a", "l", "a", "r", "y">>

\* Net worth over a chart that grows below Assets and Income; entries are
\* posted to the created accounts and to the Liabilities root.
NextNetWorth ==
    \/ \E name \in {BankName, SalaryName}, type \in {"Asset", "Income"},
          parent_id \in ArgIds(SpecRoots) :
          /\ Len(accounts) < NumSeeded + MaxNew
          /\ CreateAccount(name, type, parent_id, "EUR")
    \/ \E id \in CreatedIds :
          /\ Cardinality(Inactive) < MaxInactive
          /\ DeactivateAccount(id)
    \/ \E entries \in SeqsUpTo(EntryInputIn(CreatedIds \cup {2}, {SalaryAmount}, {"EUR"}),
                               LedgerEntries) :
          /\ Len(transactions) < MaxTx
          /\ CreateTransaction("d", 1, entries)
    \/ GetNetWorth({}, {})
    \/ \E account_type \in {"Asset", "Liability"} : GetTotal(account_type, {})

SpecNetWorth == Init /\ [][NextNetWorth]_vars

\* A day before the month's lower bound, and the first day of month 1.
MonthlyDates == {1, FirstDay(1)}

\* The monthly reports, balance call by balance call, with create_transaction
\* committing in between; entries are posted to the Income and Expenses roots.
NextMonthly ==
    \/ \E transaction_date \in MonthlyDates,
          entries \in SeqsUpTo(EntryInputIn({4, 5}, 0..MaxPosting, {"EUR"}),
                               LedgerEntries) :
          /\ Len(transactions) < MaxLedgerTx
          /\ CreateTransaction("d", transaction_date, entries)
    \/ \E account_type \in {"Income", "Expense"}, month \in ReportMonths :
          MonthlyBegin(account_type, month)
    \/ MonthlyEnd
    \/ MonthlyStart

SpecMonthly == Init /\ [][NextMonthly]_vars

\* Currency values a caller can build with Currency::new for an amount.
AmountCurrencies == {c \in {"EUR", "USD"} : CurrencyNewOk(c)}

\* Posted transactions read back, with other calls in between; entries are
\* posted to the roots.
NextHistory ==
    \/ \E transaction_date \in Dates,
          entries \in SeqsUpTo(EntryInputIn(SpecRoots, 0..MaxPosting, AmountCurrencies),
                               LedgerEntries) :
          /\ Len(transactions) < MaxLedgerTx
          /\ CreateTransaction("d", transaction_date, entries)
    \/ \E id \in 1..MaxLedgerTx : GetTransaction(id)
    \/ \E id \in SpecRoots :
          /\ Cardinality(Inactive) < MaxInactive
          /\ DeactivateAccount(id)
    \/ \E account_id \in SpecRoots : CalculateBalance(account_id)

SpecHistory == Init /\ [][NextHistory]_vars

\* The filters given to get_transactions: each of the five is given or not.
QueryFilters ==
    [account_id : {1, NULL}, from_date : {MaxDate, NoDate}, to_date : {1, NoDate},
     limit : {1, NoneU32}, offset : {1, NoneU32}]

\* Posted transactions listed under every combination of filters.
NextQuery ==
    \/ \E transaction_date \in Dates,
          entries \in SeqsUpTo(EntryInput(SpecRoots, {MaxPosting}), LedgerEntries) :
          /\ Len(transactions) < MaxLedgerTx
          /\ CreateTransaction("d", transaction_date, entries)
    \/ \E f \in QueryFilters : GetTransactions(f)

SpecQuery == Init /\ [][NextQuery]_vars

\* The roots, each of its own type.
AllRoots == 1..NumSeeded

\* The accounting equation: a chart that grows below Assets and Income and
\* is never deactivated, entries in EUR posted to any account of the chart.
NextEquation ==
    \/ \E type \in {"Asset", "Income"}, parent_id \in SpecRoots :
          /\ Len(accounts) < NumSeeded + MaxLeaves
          /\ CreateAccount(<<"B">>, type, parent_id, "EUR")
    \/ \E entries \in SeqsUpTo(EntryInputIn(AccountIds, {MaxPosting}, {"EUR"}),
                               LedgerEntries) :
          /\ Len(transactions) < MaxLedgerTx
          /\ CreateTransaction("d", 1, entries)
    \/ GetNetWorth({}, {})

SpecEquation == Init /\ [][NextEquation]_vars

\* The monthly reports over a chart that grows below Assets, Income and
\* Expenses; entries are dated the first day of month 1 and posted to the
\* created accounts and to the Income root.
NextSalary ==
    \/ \E name \in {BankName, SalaryName}, type \in {"Asset", "Income", "Expense"},
          parent_id \in {1, 4, 5} :
          /\ Len(accounts) < NumSeeded + MaxNew
          /\ CreateAccount(name, type, parent_id, "EUR")
    \/ \E entries \in SeqsUpTo(EntryInputIn(CreatedIds \cup {4}, {MaxPosting}, {"EUR"}),
                               LedgerEntries) :
          /\ Len(transactions) < MaxLedgerTx
          /\ CreateTransaction("d", FirstDay(1), entries)
    \/ \E account_type \in {"Income", "Expense"} : GetMonthly(account_type, 1, {}, {})

SpecSalary == Init /\ [][NextSalary]_vars

\* Concurrent calls on the pool: the first MaxWriters callers post
\* transactions, the others list them.
NextPool ==
    \E c \in Callers :
        \/ PoolCall(c, IF c <= MaxWriters THEN "create_transaction" ELSE "get_transactions")
        \/ PoolAcquire(c)
        \/ PoolTxInsert(c)
        \/ PoolTxEnd(c)
        \/ PoolFetchAll(c)

\* Running calls finish, and the pool serves its waiters in turn (the
\* semaphore of the sqlx pool is fair).
FairPool ==
    \A c \in Callers :
        /\ SF_vars(PoolAcquire(c))
        /\ WF_vars(PoolTxInsert(c))
        /\ WF_vars(PoolTxEnd(c))
        /\ WF_vars(PoolFetchAll(c))

SpecPool == Init /\ [][NextPool]_vars /\ FairPool

\* create_transaction and the reads, statement by statement, over the
\* seeded chart; entries are posted to the roots.
NextTx ==
    \/ \E transaction_date \in 1..TxDates,
          entries \in SeqsUpTo(EntryInput(SpecRoots, 0..MaxPosting), LedgerEntries) :
          /\ Len(transactions) < MaxCommits
          /\ TxBegin("d", transaction_date, entries)
    \/ TxInsertHeader
    \/ TxInsertEntry
    \/ TxCommit
    \/ TxFail
    \/ TxCancel
    \/ \E id \in 1..MaxCommits : GetTransactionHeader(id)
    \/ GetTransactionEntries
    \/ \E f \in Filters({1}, {}, {1}) : GetTransactionsHeaders(f)
    \/ GetTransactionsEntries
    \/ \E op \in BalanceOps, account_id \in ArgIds(SpecRoots),
          as_of_date \in {NoDate, TxDates + 1} :
          /\ op # "calculate_account_balance" => as_of_date = NoDate
          /\ BalanceGetById(op, account_id, as_of_date)
    \/ BalanceDescendants
    \/ BalanceSums

SpecTx == Init /\ [][NextTx]_vars

(***************************************************************************)
(* validate_transaction_balance as a pure function of its argument.        *)
(***************************************************************************)
InitValidate ==
    /\ accounts = SeededAccounts
    /\ transactions = << >>
    /\ transaction_entries = << >>
    /\ ret = NoRet
    /\ tx = TxIdle(NotCalled)
    /\ log = << >>
    /\ rd = RdIdle
    /\ v_entries \in SeqsUpTo(EntryInput({1}, -1..MaxAmount), MaxEntries)
    /\ v_result = NotCalled
    /\ pool = 0
    /\ calls = [c \in Callers |-> NoCall]

Validate ==
    /\ v_result = NotCalled
    /\ v_result' = validate_transaction_balance(v_entries)
    /\ UNCHANGED <<accounts, transactions, transaction_entries, ret, tx, log, rd, v_entries,
                   pool, calls>>

SpecValidate == InitValidate /\ [][Validate]_vars

(***************************************************************************)
(* Claims                                                                  *)
(***************************************************************************)
Accepted == v_result # NotCalled /\ v_result.ok

RECURSIVE Total(_, _)
\* Sum of the amounts of the entries of type t, by index from the end.
Total(entries, t) ==
    IF Len(entries) = 0 THEN 0
    ELSE Total(SubSeq(entries, 1, Len(entries) - 1), t)
         + (IF entries[Len(entries)].entry_type = t
            THEN entries[Len(entries)].amount_minor ELSE 0)

\* C2: every entry list validate_transaction_balance accepts has equal
\* Debit and Credit totals.
C2_AcceptedIsBalanced ==
    Accepted => Total(v_entries, "Debit") = Total(v_entries, "Credit")

C2_Witness ==
    /\ Accepted
    /\ Len(v_entries) = 3
    /\ Total(v_entries, "Debit") = 2

\* C3: validate_transaction_balance fails exactly on the lists with fewer
\* than two entries, a non-positive amount, two currencies or unequal
\* totals; the error names the first violation in the order count,
\* positivity, currency, balance; the unbalanced error carries both totals.
C3_Expected(entries) ==
    IF Len(entries) < 2 THEN "Transaction must have at least 2 entries"
    ELSE IF \E i \in DOMAIN entries : ~(entries[i].amount_minor > 0)
    THEN "All transaction amounts must be positive"
    ELSE IF \E i, j \in DOMAIN entries : entries[i].currency # entries[j].currency
    THEN "Multi-currency transactions not supported yet"
    ELSE IF Total(entries, "Debit") # Total(entries, "Credit")
    THEN "Transaction is not balanced"
    ELSE ""

C3_ErrorPerViolation ==
    v_result # NotCalled =>
        /\ v_result.ok <=> C3_Expected(v_entries) = ""
        /\ ~v_result.ok => v_result.kind = "ValidationError"
        /\ v_result.msg = C3_Expected(v_entries)
        /\ v_result.msg = "Transaction is not balanced" =>
               v_result.val = <<Total(v_entries, "Debit"), Total(v_entries, "Credit")>>

C3_Witness ==
    /\ v_result # NotCalled
    /\ v_result.msg = "Transaction is not balanced"
    /\ v_result.val = <<2, 1>>
    /\ Len(v_entries) = 3

RECURSIVE Ancestors(_, _)
\* Number of parent links above account a, following at most `fuel` of them.
Ancestors(a, fuel) ==
    IF fuel = 0 \/ a \notin AccountIds \/ accounts[a].parent_id = NULL THEN 0
    ELSE 1 + Ancestors(accounts[a].parent_id, fuel - 1)

\* C9: every account with a parent_id refers to an existing account of its
\* own account_type.
C9_ParentSameType ==
    \A a \in AccountIds :
        accounts[a].parent_id # NULL =>
            /\ accounts[a].parent_id \in AccountIds
            /\ accounts[accounts[a].parent_id].account_type = accounts[a].account_type

\* A successful update_account was given a parent other than the stored one.
C9_Witness ==
    /\ ret.op = "update_account" /\ ret.res.ok
    /\ Len(accounts) = NumSeeded + 2
    /\ accounts[NumSeeded + 2].parent_id = NumSeeded + 1
    /\ ~accounts[NumSeeded + 1].is_active

\* C10: no account has an ancestor chain deeper than 5.
C10_DepthAtMostFive ==
    \A a \in AccountIds : Ancestors(a, Len(accounts)) <= MaxDepth

(***************************************************************************)
(* The stored ledger and create_transaction (SpecTx).                      *)
(***************************************************************************)
\* The entry rows of stored transaction t.
StoredEntries(t) == {r \in EntryIds : transaction_entries[r].transaction_id = t}

RECURSIVE LogRowsUpTo(_)
\* The entry rows of the first n committed calls, in commit order.
LogRowsUpTo(n) ==
    IF n = 0 THEN << >>
    ELSE LogRowsUpTo(n - 1) \o EntryRows(n, log[n].entries)

LogRows == LogRowsUpTo(Len(log))

\* C1: every stored transaction has at least two entries, only strictly
\* positive amounts, one currency code, and equal Debit and Credit sums; hence
\* the stored debit postings and the stored credit postings have one total.
C1_StoredTransactionsBalanced ==
    /\ \A t \in 1..Len(transactions) :
          /\ Cardinality(StoredEntries(t)) >= 2
          /\ \A r \in StoredEntries(t) : transaction_entries[r].amount_minor > 0
          /\ \A r1, r2 \in StoredEntries(t) :
                transaction_entries[r1].currency = transaction_entries[r2].currency
          /\ SumRows(StoredEntries(t), "debit") = SumRows(StoredEntries(t), "credit")
    /\ SumRows(EntryIds, "debit") = SumRows(EntryIds, "credit")

\* Two transactions are stored, one in each currency.
C1_Witness ==
    /\ Len(transactions) = 2
    /\ \A r \in StoredEntries(1) : transaction_entries[r].currency = "EUR"
    /\ \A r \in StoredEntries(2) : transaction_entries[r].currency = "BTC"
    /\ Cardinality(StoredEntries(2)) = 2

\* C4: create_transaction is all-or-nothing and is not retried: the stored
\* rows are exactly the rows of the calls that committed, and the step that
\* ends a call with a failure or a cancellation changes no table and leaves
\* no call in flight.
C4_AllOrNothing ==
    /\ [](/\ Len(transactions) = Len(log)
          /\ \A t \in 1..Len(log) :
                transactions[t] = HeaderRow(log[t].description, log[t].transaction_date)
          /\ transaction_entries = LogRows)
    /\ [][(InFlight /\ tx'.pc = "idle" /\ ~tx'.res.ok)
             => /\ UNCHANGED <<transactions, transaction_entries, log>>
                /\ tx'.pending = << >>
                /\ tx'.header_id = NULL]_vars

\* A call failed at its commit, after every insert, with one earlier
\* transaction stored.
C4_Witness ==
    /\ tx.pc = "idle"
    /\ tx.res.kind = "DatabaseError" /\ tx.res.msg = "commit"
    /\ Len(transactions) = 1
    /\ Len(transaction_entries) = 2

\* A Transaction value a read returned is a committed transaction with all
\* of its entries.
Complete(value) ==
    /\ value.id \in 1..Len(log)
    /\ value.transaction_date = log[value.id].transaction_date
    /\ Len(value.entries) = Len(log[value.id].entries)
    /\ \A i \in 1..Len(value.entries) :
          /\ value.entries[i].account_id = log[value.id].entries[i].account_id
          /\ value.entries[i].amount[1] = log[value.id].entries[i].amount_minor
          /\ value.entries[i].entry_type = log[value.id].entries[i].entry_type

\* The Transaction values the read in rd has built so far.
ReadValues ==
    IF rd.op = "get_transaction"
    THEN IF rd.pc = "done" /\ rd.out.ok THEN <<rd.out.val>> ELSE << >>
    ELSE IF rd.op = "get_transactions"
    THEN IF rd.pc = "done" THEN (IF rd.out.ok THEN rd.out.val ELSE << >>) ELSE rd.out
    ELSE << >>

\* The accounts whose postings the sums statement of the read in rd selects.
SumsAccounts ==
    IF rd.op = "calculate_balance_with_children" THEN rd.rows ELSE {rd.arg[1]}

\* C5: no read observes a transaction header without all of its entries, nor
\* a sum over some but not all of the entries of one transaction that are
\* posted to the accounts summed.
C5_NoPartialRead ==
    /\ \A i \in 1..Len(ReadValues) : Complete(ReadValues[i])
    /\ (rd.op \in {"get_transaction", "get_transactions"} /\ rd.pc = "entries")
          => \A i \in 1..Len(rd.rows) : rd.rows[i].id \in 1..Len(log)
    /\ (rd.op \in BalanceOps /\ rd.pc = "done")
          => \A r \in rd.out.seen :
                /\ r \in 1..Len(LogRows)
                /\ \A r2 \in 1..Len(LogRows) :
                      (/\ LogRows[r2].transaction_id = LogRows[r].transaction_id
                       /\ LogRows[r2].account_id \in SumsAccounts)
                          => r2 \in rd.out.seen

\* A balance was summed over a stored transaction while a second
\* create_transaction, with one of its entries inserted on the same account,
\* was in flight.
C5_Witness ==
    /\ rd.op = "calculate_balance" /\ rd.pc = "done"
    /\ Cardinality(rd.out.seen) = 2
    /\ tx.pc = "header" /\ Len(tx.pending) = 1
    /\ tx.pending[1].account_id = rd.arg[1]

(***************************************************************************)
(* The balances (Spec, SpecLedger).                                        *)
(***************************************************************************)
\* The normal-balance signed sum of a set of postings for account a.
SignedSum(a, rows) ==
    IF accounts[a].account_type \in {"asset", "expense"}
    THEN SumRows(rows, "debit") - SumRows(rows, "credit")
    ELSE SumRows(rows, "credit") - SumRows(rows, "debit")

\* All the postings on account a.
Postings(a) == {r \in EntryIds : transaction_entries[r].account_id = a}

\* C6: calculate_balance(a) is the normal-balance signed sum of all the
\* postings on a (zero when there is none).
C6_BalanceIsSignedSum ==
    (ret.op = "calculate_balance" /\ ret.res.ok)
        => ret.res.val[1] = SignedSum(ret.arg[1], Postings(ret.arg[1]))

RECURSIVE ProperAncestors(_, _)
\* The accounts on the parent chain above a.
ProperAncestors(a, fuel) ==
    IF fuel = 0 \/ a \notin AccountIds \/ accounts[a].parent_id = NULL THEN {}
    ELSE {accounts[a].parent_id} \cup ProperAncestors(accounts[a].parent_id, fuel - 1)

\* The descendants of p, at any depth.
Descendants(p) == {x \in AccountIds : p \in ProperAncestors(x, Len(accounts))}

ActiveDescendants(p) == {x \in Descendants(p) : accounts[x].is_active}

RECURSIVE BalanceTotals(_)
\* The totals that summing one calculate_balance result per account of S
\* can give.
BalanceTotals(S) ==
    IF S = {} THEN {0}
    ELSE LET x == CHOOSE y \in S : TRUE
         IN  {res.val[1] + rest : res \in {b \in calculate_balance(x) : b.ok},
                                  rest \in BalanceTotals(S \ {x})}

\* C7: when p and its descendants share one account type,
\* calculate_balance_with_children(p) is the sum of calculate_balance over p
\* and every active descendant of p.
C7_RollUpIsSumOfBalances ==
    (/\ ret.op = "calculate_balance_with_children" /\ ret.res.ok
     /\ \A x \in Descendants(ret.arg[1]) :
           accounts[x].account_type = accounts[ret.arg[1]].account_type)
        => ret.res.val[1] \in BalanceTotals({ret.arg[1]} \cup ActiveDescendants(ret.arg[1]))

\* The postings on a whose transaction is dated strictly before d.
PostingsBefore(a, d) ==
    {r \in Postings(a) :
        transactions[transaction_entries[r].transaction_id].transaction_date < d}

\* C8: calculate_account_balance(a, Some(d)) is the signed sum of the
\* postings on a dated strictly before d, and calculate_account_balance(a,
\* None) is a result of calculate_balance(a) in the same state.
C8_BalanceBeforeDate ==
    (ret.op = "calculate_account_balance" /\ ret.res.ok)
        => IF ret.arg[2] # NoDate
           THEN ret.res.val[1]
                    = SignedSum(ret.arg[1], PostingsBefore(ret.arg[1], ret.arg[2]))
           ELSE ret.res \in calculate_balance(ret.arg[1])

(***************************************************************************)
(* The account operations, call by call (SpecAccounts, Spec).              *)
(***************************************************************************)
\* The name holds nothing but blanks.
IsBlank(name) == \A i \in 1..Len(name) : name[i] = " "

\* stored is name without its leading and trailing blanks.
IsTrimOf(stored, name) ==
    /\ stored # << >>
    /\ stored[1] # " " /\ stored[Len(stored)] # " "
    /\ \E i \in 1..Len(name) :
          /\ SubSeq(name, i, i + Len(stored) - 1) = stored
          /\ IsBlank(SubSeq(name, 1, i - 1))
          /\ IsBlank(SubSeq(name, i + Len(stored), Len(name)))

\* What create_account(name, t, p, c) does in the step, by the three checks
\* and the success case; a parent id that names no row is no case of them.
C11_Post(name, t, p, c) ==
    IF \/ p = NULL
       \/ p \in AccountIds /\ accounts[p].account_type # AccountTypeStr(t)
       \/ p \in AccountIds /\ IsBlank(name)
    THEN /\ ret'.res.kind = "ValidationError"
         /\ accounts' = accounts
    ELSE p \in AccountIds =>
         /\ ret'.res.ok
         /\ Len(accounts') = Len(accounts) + 1
         /\ ret'.res.val = Len(accounts')
         /\ accounts'[Len(accounts')].is_active
         /\ accounts'[Len(accounts')].parent_id = p
         /\ IsTrimOf(accounts'[Len(accounts')].name, name)

\* C11: create_account fails with ValidationError and adds no row when
\* parent_id is absent, the parent's type differs or the trimmed name is
\* empty; otherwise, the insert accepted, it returns the stored account with
\* its generated id, is_active = true, the trimmed name and the parent_id.
C11_CreateAccountContract ==
    [][\A name \in NameInputs, t \in AccountType,
          p \in {NULL} \cup 1..Len(accounts) + 1, c \in AccountCurrencies :
          CreateAccount(name, t, p, c) => C11_Post(name, t, p, c)]_vars

\* The active children of an account.
ActiveChildren(id) ==
    {x \in AccountIds : accounts[x].parent_id = id /\ accounts[x].is_active}

\* C12: deactivate_account(id) fails with ValidationError and leaves
\* is_active unchanged when the account has an active child, and succeeds
\* with is_active becoming false when it has none.
C12_DeactivateContract ==
    [][\A id \in AccountIds :
          DeactivateAccount(id) =>
             IF ActiveChildren(id) # {}
             THEN ret'.res.kind = "ValidationError" /\ accounts' = accounts
             ELSE ret'.res.ok /\ accounts'[id].is_active = FALSE]_vars

\* C13: no account row is ever removed, a new row is active, and is_active
\* only ever changes from true to false, in a successful deactivate_account.
C13_LifecycleOneWay ==
    [][/\ Len(accounts') >= Len(accounts)
       /\ \A a \in DOMAIN accounts' :
             IF a \in AccountIds
             THEN accounts'[a].is_active # accounts[a].is_active
                     => /\ accounts[a].is_active
                        /\ ret'.op = "deactivate_account" /\ ret'.res.ok
             ELSE accounts'[a].is_active]_vars

\* An account was deactivated, a child was created under it afterwards, and
\* an update_account call followed: the account is still inactive.
C13_Witness ==
    /\ Len(accounts) = NumSeeded + 2
    /\ ~accounts[NumSeeded + 1].is_active
    /\ accounts[NumSeeded + 2].parent_id = NumSeeded + 1
    /\ accounts[NumSeeded + 2].is_active
    /\ accounts[NumSeeded + 1].name = <<"C">>
    /\ ret.op = "update_account" /\ ret.res.ok

\* C14: a call that returns a ValidationError leaves the three tables as
\* they were.
C14_ValidationErrorWritesNothing ==
    [][ret'.res.kind = "ValidationError"
          => UNCHANGED <<accounts, transactions, transaction_entries>>]_vars

\* deactivate_account was refused with a ValidationError on a ledger that
\* holds created accounts and a transaction.
C14_Witness ==
    /\ ret.op = "deactivate_account" /\ ret.res.kind = "ValidationError"
    /\ Len(accounts) = NumSeeded + 2
    /\ Len(transactions) = 1

\* C19: a successful update_account (it returns the id of its target)
\* leaves every other row, and the parent_id, account_type, currency and
\* is_active of its target, unchanged, whatever the supplied account carries.
C19_UpdateFrame ==
    [][(ret'.op = "update_account" /\ ret'.res.ok) =>
          /\ Len(accounts') = Len(accounts)
          /\ \A a \in AccountIds :
                IF a = ret'.res.val
                THEN /\ accounts'[a].parent_id = accounts[a].parent_id
                     /\ accounts'[a].account_type = accounts[a].account_type
                     /\ accounts'[a].currency = accounts[a].currency
                     /\ accounts'[a].is_active = accounts[a].is_active
                ELSE accounts'[a] = accounts[a]]_vars

\* A created Asset account under root 1 was renamed by an update_account
\* call.
C19_Witness ==
    /\ ret.op = "update_account" /\ ret.res.ok
    /\ Len(accounts) > NumSeeded
    /\ accounts[NumSeeded + 1].name = <<"C">>
    /\ accounts[NumSeeded + 1].parent_id = 1
    /\ accounts[NumSeeded + 1].account_type = "asset"

(***************************************************************************)
(* The reports (SpecReport).                                               *)
(***************************************************************************)
MonthlyOps == {"get_monthly_income", "get_monthly_expenses"}

\* The postings on a dated from day `from` through day `to`.
PostingsWithin(a, from, to) ==
    {r \in Postings(a) :
        transactions[transaction_entries[r].transaction_id].transaction_date
            \in from..to}

RECURSIVE MonthSum(_, _)
\* The signed sum, over the accounts of S, of the postings dated in the month.
MonthSum(S, month) ==
    IF S = {} THEN 0
    ELSE LET a == CHOOSE x \in S : TRUE
         IN  SignedSum(a, PostingsWithin(a, FirstDay(month), FirstDay(month + 1) - 1))
             + MonthSum(S \ {a}, month)

\* C15: with no failing call, get_monthly_income / get_monthly_expenses is
\* the signed sum, over the roots of the type, of the postings dated from the
\* first through the last day of the month.
C15_MonthlyIsMonthSum ==
    (/\ ret.op \in MonthlyOps /\ ret.res.ok
     /\ ret.arg[3] = {} /\ ret.arg[4] = {})
        => ret.res.val[1] = MonthSum(RootsOfType(ret.arg[1]), ret.arg[2])

\* The roots whose balance call failed in the report call that returned.
FailedRoots ==
    IF ret.op \in MonthlyOps THEN (ret.arg[3] \cup ret.arg[4]) \cap RootsOfType(ret.arg[1])
    ELSE IF ret.op = "get_net_worth" THEN ret.arg[1] \cup ret.arg[2]
    ELSE ret.arg[2] \cap RootsOfType(ret.arg[1])

\* The totals the same call gives over the roots that did not fail.
TotalsWithout(failed) ==
    IF ret.op \in MonthlyOps
    THEN {loop.total : loop \in MonthlyLoop(RootsOfType(ret.arg[1]) \ failed,
                                            ret.arg[2], {}, {})}
    ELSE {loop.total : loop \in TotalLoop(RootsOfType(ret.arg[1]) \ failed, {})}

\* C17: an aggregation whose balance call fails for a root still returns Ok,
\* the total is that of the other roots, and the failure is printed.
C17_FailedRootExcludedAndReported ==
    (/\ ret.op \in MonthlyOps \cup {"get_total_assets", "get_total_liabilities"}
     /\ ret.op \in MonthlyOps => ValidMonth(ret.arg[2])
     /\ FailedRoots # {})
        => /\ ret.res.ok
           /\ ret.res.val[1] \in TotalsWithout(FailedRoots)
           /\ FailedRoots \subseteq ret.stderr

RECURSIVE RollUpTotals(_)
\* The totals that summing one calculate_balance_with_children result per
\* account of S can give.
RollUpTotals(S) ==
    IF S = {} THEN {0}
    ELSE LET x == CHOOSE y \in S : TRUE
         IN  {res.val[1] + rest :
                 res \in {b \in calculate_balance_with_children(x) : b.ok},
                 rest \in RollUpTotals(S \ {x})}

\* The accounts without a parent, of a type.
Roots(type) ==
    {a \in AccountIds : accounts[a].parent_id = NULL /\ accounts[a].account_type = type}

\* Bank is under Assets, Salary under Income, and the one transaction is
\* Debit Bank 100000 / Credit Salary 100000.
BankSalaryScenario ==
    /\ Len(accounts) = NumSeeded + 2
    /\ Len(transactions) = 1
    /\ \E bank, salary \in CreatedIds :
          /\ accounts[bank].name = BankName /\ accounts[bank].parent_id = 1
          /\ accounts[salary].name = SalaryName /\ accounts[salary].parent_id = 4
          /\ accounts[bank].is_active /\ accounts[salary].is_active
          /\ transaction_entries =
                <<[transaction_id |-> 1, account_id |-> bank, amount_minor |-> 100000,
                   currency |-> "EUR", entry_type |-> "debit"],
                  [transaction_id |-> 1, account_id |-> salary, amount_minor |-> 100000,
                   currency |-> "EUR", entry_type |-> "credit"]>>

\* C18: get_net_worth is the sum of calculate_balance_with_children over the
\* root Asset accounts minus that over the root Liability accounts; in the
\* Bank/Salary scenario it is 100000.
C18_NetWorth ==
    (ret.op = "get_net_worth" /\ ret.res.ok /\ ret.arg = <<{}, {}>>)
        => /\ ret.res.val[1] \in {a - l : a \in RollUpTotals(Roots("asset")),
                                         l \in RollUpTotals(Roots("liability"))}
           /\ BankSalaryScenario => ret.res.val[1] = 100000

\* get_net_worth returned in the Bank/Salary scenario.
C18_Witness ==
    /\ BankSalaryScenario
    /\ ret.op = "get_net_worth" /\ ret.res.ok
    /\ ret.res.val = <<100000, "EUR">>

(***************************************************************************)
(* The monthly report against concurrent commits (SpecMonthly).            *)
(***************************************************************************)
\* The postings on a, among the first k transactions, dated before d.
PostingsBeforeAt(a, d, k) ==
    {r \in PostingsBefore(a, d) : transaction_entries[r].transaction_id <= k}

RECURSIVE MonthlyValueAt(_, _, _)
\* What the monthly report gives over roots S on the ledger of the first k
\* transactions: balance before the month's end less balance before the day
\* before its start.
MonthlyValueAt(S, month, k) ==
    IF S = {} THEN 0
    ELSE LET a == CHOOSE x \in S : TRUE
         IN  SignedSum(a, PostingsBeforeAt(a, EndDate(month), k))
             - SignedSum(a, PostingsBeforeAt(a, StartBound(month), k))
             + MonthlyValueAt(S \ {a}, month, k)

\* The monthly call in rd returned a total that it gives on none of the
\* ledgers that existed from its start to its return.
TornTotal ==
    /\ rd.op = "get_monthly_total" /\ rd.pc = "done" /\ rd.out.res.ok
    /\ \A k \in rd.out.began_at..rd.out.ended_at :
          rd.out.res.val[1] # MonthlyValueAt(RootsOfType(rd.arg[1]), rd.arg[2], k)

\* C16: a torn total is reachable, and only by a commit between the
\* month-end call and the month-start call of one root.
C16_TornOnlyAcrossCommit == TornTotal => rd.out.torn

\* One transaction committed during the call, and the total is neither the
\* value on the ledger before that commit nor the value on the ledger after.
C16_Witness ==
    /\ TornTotal
    /\ rd.out.ended_at = rd.out.began_at + 1
    /\ rd.out.torn

(***************************************************************************)
(* Posted transactions read back (SpecHistory).                            *)
(***************************************************************************)
\* The entry type a stored string stands for.
GivenEntryType(str) == IF str = "debit" THEN "Debit" ELSE "Credit"

RECURSIVE GivenEntries(_, _)
\* The entries given for stored transaction t, in the order given: the rows
\* are inserted in that order, from row `from` on.
GivenEntries(t, from) ==
    IF from > Len(transaction_entries) THEN << >>
    ELSE (IF transaction_entries[from].transaction_id = t
          THEN <<transaction_entries[from]>> ELSE << >>)
         \o GivenEntries(t, from + 1)

\* C20: get_transaction(t) of a posted transaction succeeds and returns the
\* description, the date and the entries (account id, amount, currency code,
\* entry type) as they were given, in order.
C20_PostedTransactionsReadBack ==
    (ret.op = "get_transaction" /\ ret.arg[1] \in 1..Len(transactions))
        => /\ ret.res.ok
           /\ ret.res.val.description = transactions[ret.arg[1]].description
           /\ ret.res.val.transaction_date = transactions[ret.arg[1]].transaction_date
           /\ LET given == GivenEntries(ret.arg[1], 1)
              IN  /\ Len(ret.res.val.entries) = Len(given)
                  /\ \A i \in 1..Len(given) :
                        /\ ret.res.val.entries[i].account_id = given[i].account_id
                        /\ ret.res.val.entries[i].amount
                              = <<given[i].amount_minor, given[i].currency>>
                        /\ ret.res.val.entries[i].entry_type
                              = GivenEntryType(given[i].entry_type)

(***************************************************************************)
(* The account tree (SpecTree).                                            *)
(***************************************************************************)
RECURSIVE PathOf(_)
\* The names from the root of a down to a, joined by ' > '.
PathOf(a) ==
    IF accounts[a].parent_id = NULL THEN accounts[a].name
    ELSE PathOf(accounts[a].parent_id) \o PathSeparator \o accounts[a].name

\* Nodes m, n of a returned tree are in the order the claim gives.
InTreeOrder(m, n) ==
    \/ TypeRank(accounts[m.id].account_type) < TypeRank(accounts[n.id].account_type)
    \/ /\ TypeRank(accounts[m.id].account_type) = TypeRank(accounts[n.id].account_type)
       /\ ~TextLess(n.path, m.path)

\* C21: get_account_tree returns every active account exactly once and no
\* inactive account, each with level equal to its number of ancestors and
\* path equal to the names from its root down to itself joined by ' > ',
\* ordered by account-type rank and then by path.
C21_AccountTree ==
    ret.op = "get_account_tree"
        => /\ ret.res.ok
           /\ \A a \in AccountIds :
                 Cardinality({i \in 1..Len(ret.res.val) : ret.res.val[i].id = a})
                    = IF accounts[a].is_active THEN 1 ELSE 0
           /\ \A i \in 1..Len(ret.res.val) :
                 /\ ret.res.val[i].level = Ancestors(ret.res.val[i].id, Len(accounts))
                 /\ ret.res.val[i].path = PathOf(ret.res.val[i].id)
           /\ \A i, j \in 1..Len(ret.res.val) :
                 i < j => InTreeOrder(ret.res.val[i], ret.res.val[j])

(***************************************************************************)
(* Listing transactions (SpecQuery).                                       *)
(***************************************************************************)
\* The transactions filter f asks for.
Asked(f) ==
    {t \in 1..Len(transactions) :
        /\ f.account_id # NULL =>
              \E r \in EntryIds : /\ transaction_entries[r].transaction_id = t
                                  /\ transaction_entries[r].account_id = f.account_id
        /\ f.from_date # NoDate => f.from_date <= transactions[t].transaction_date
        /\ f.to_date # NoDate => transactions[t].transaction_date <= f.to_date}

\* Transaction t is listed before u: date descending, then id descending.
ListedBefore(t, u) ==
    \/ transactions[t].transaction_date > transactions[u].transaction_date
    \/ /\ transactions[t].transaction_date = transactions[u].transaction_date
       /\ t > u

\* How many results filter f leaves after offset and limit.
AskedCount(f) ==
    LET skip == IF f.offset = NoneU32 THEN 0 ELSE f.offset
        rest == IF Cardinality(Asked(f)) > skip THEN Cardinality(Asked(f)) - skip ELSE 0
    IN  IF f.limit # NoneU32 /\ f.limit < rest THEN f.limit ELSE rest

\* C22: for every combination of filters get_transactions returns exactly the
\* transactions asked for, each once and with all its entries, sorted by date
\* descending then id descending, the first `offset` skipped and at most
\* `limit` returned, limit and offset being optional independently.
C22_GetTransactionsFilters ==
    ret.op = "get_transactions"
        => /\ ret.res.ok
           /\ Len(ret.res.val) = AskedCount(ret.arg[1])
           /\ \A i \in 1..Len(ret.res.val) :
                 /\ ret.res.val[i].id \in Asked(ret.arg[1])
                 /\ Cardinality({t \in Asked(ret.arg[1]) :
                                    ListedBefore(t, ret.res.val[i].id)})
                       = (IF ret.arg[1].offset = NoneU32 THEN 0 ELSE ret.arg[1].offset)
                         + i - 1
                 /\ ret.res.val[i].transaction_date
                       = transactions[ret.res.val[i].id].transaction_date
                 /\ LET given == GivenEntries(ret.res.val[i].id, 1)
                    IN  /\ Len(ret.res.val[i].entries) = Len(given)
                        /\ \A k \in 1..Len(given) :
                              /\ ret.res.val[i].entries[k].account_id = given[k].account_id
                              /\ ret.res.val[i].entries[k].amount
                                    = <<given[k].amount_minor, given[k].currency>>

(***************************************************************************)
(* Deactivated accounts and their children (SpecAccounts).                 *)
(***************************************************************************)
\* C23: under any sequence of create_account, update_account and
\* deactivate_account calls, no inactive account has an active child.
C23_NoActiveChildOfInactive ==
    \A a \in AccountIds : ~accounts[a].is_active => ActiveChildren(a) = {}

(***************************************************************************)
(* The accounting equation (SpecEquation).                                 *)
(***************************************************************************)
\* The values the roll-up balance of the root of a type can take.
RootRollUp(type) ==
    {res.val[1] : res \in {b \in UNION {calculate_balance_with_children(r) :
                                           r \in Roots(AccountTypeStr(type))} : b.ok}}

\* Every account is active and descends from one of the five seeded roots.
ChartOfActiveAccounts ==
    \A a \in AccountIds :
        /\ accounts[a].is_active
        /\ a \in AllRoots \/ \E r \in AllRoots : a \in Descendants(r)

C25_PostingsInAccountCurrency ==
    \A r \in EntryIds :
        /\ transaction_entries[r].account_id \in AccountIds =>
              transaction_entries[r].currency
                 = accounts[transaction_entries[r].account_id].currency
        /\ \A q \in EntryIds :
              transaction_entries[q].account_id = transaction_entries[r].account_id
                 => transaction_entries[q].currency = transaction_entries[r].currency

(***************************************************************************)
(* Failed creates and later reads (SpecAccounts).                          *)
(***************************************************************************)
\* C26: whenever create_account returns an error no account row has been
\* added (so a call that passes the parent, type and name checks, with any
\* currency Currency::new accepts, returns Ok), and afterwards get_accounts
\* and get_account of every stored account succeed.
C26_FailedCreateAddsNothing ==
    [][/\ (ret'.op = "create_account" /\ ~ret'.res.ok) => accounts' = accounts
       /\ GetAllOk'
       /\ \A a \in 1..Len(accounts') : GetByIdOk(a)']_vars

(***************************************************************************)
(* The monthly reports below the roots (SpecSalary).                       *)
(***************************************************************************)
\* The roots of a type and their active descendants.
RootsAndDescendants(account_type) ==
    RootsOfType(account_type)
        \cup UNION {ActiveDescendants(r) : r \in RootsOfType(account_type)}

\* C27: get_monthly_income / get_monthly_expenses count the month's postings
\* made on the Income / Expense roots and on every active descendant of
\* them (Salary under Income), not only those made on the roots.
C27_MonthlyCountsDescendants ==
    (/\ ret.op \in MonthlyOps /\ ret.res.ok
     /\ ret.arg[3] = {} /\ ret.arg[4] = {})
        => ret.res.val[1] = MonthSum(RootsAndDescendants(ret.arg[1]), ret.arg[2])

(***************************************************************************)
(* Postings and deactivated accounts (SpecHistory).                        *)
(***************************************************************************)
\* C28: create_transaction records postings only against accounts that
\* exist and are active, so the postings on an account do not change once it
\* is deactivated.
C28_PostingsOnlyOnActiveAccounts ==
    [][/\ \A r \in Len(transaction_entries) + 1 .. Len(transaction_entries') :
             /\ transaction_entries'[r].account_id \in AccountIds
             /\ accounts[transaction_entries'[r].account_id].is_active
       /\ \A a \in Inactive :
             {r \in 1..Len(transaction_entries') :
                 transaction_entries'[r].account_id = a} = Postings(a)]_vars

(***************************************************************************)
(* The parent relation (SpecAccounts).                                     *)
(***************************************************************************)
\* C29: the parent relation over accounts is a forest: no account is its own
\* parent and no chain of parent_id links returns to its starting account.
C29_ParentRelationAcyclic ==
    \A a \in AccountIds :
        /\ accounts[a].parent_id # a
        /\ a \notin ProperAncestors(a, Len(accounts))

\* update_account succeeded on an account that has a descendant, which the
\* caller could have named as its new parent.
C29_Witness ==
    /\ ret.op = "update_account" /\ ret.res.ok
    /\ Descendants(ret.res.val) # {}
    /\ C29_ParentRelationAcyclic

(***************************************************************************)
(* The connection pool (SpecPool).                                         *)
(***************************************************************************)
\* No call holds a connection while it waits for another.
NoHoldAndWait == \A c \in Callers : calls[c].pc = "acquire" => calls[c].held = 0

\* C30: no service call holds one pool connection while waiting for another,
\* at most max_connections connections are checked out, and every call
\* that waits for a connection eventually obtains one, given that running
\* calls finish.
C30_PoolNeverDeadlocks ==
    /\ [](NoHoldAndWait /\ pool <= max_connections)
    /\ \A c \in Callers : (calls[c].pc = "acquire") ~> (calls[c].pc = "run")

\* All the connections are checked out and a call waits for one.
C30_Witness ==
    /\ pool = max_connections
    /\ \E c \in Callers : calls[c].pc = "acquire"
    /\ \E c \in Callers : calls[c].op = "create_transaction" /\ calls[c].held = 1
    /\ \E c \in Callers : calls[c].op = "get_transactions" /\ calls[c].held = 1

====
